---- MODULE Spec2Model ----
(***************************************************************************)
(* Model of sauron.py: the multi-pass parallel ping scan (_run_once), the  *)
(* green/yellow/red classification, the diff against the previous          *)
(* map_status_latest.json and the "latest" files it rewrites.              *)
(*                                                                         *)
(* Strings are modelled as sequences of character codes (store numbers)    *)
(* or as sequences of dot-separated components (addresses), so that the    *)
(* sort key and the gateway derivation are computed, not assumed.          *)
(***************************************************************************)
EXTENDS Integers, Sequences, FiniteSets, TLC

\* ---------------------------------------------------------------- bounds
MaxRows == 2
MaxRuns == 3
MaxWrites == 3
MaxPublishes == 3
MaxFeed == 2

\* ------------------------------------------------------------ constants
\* --retry-pings default
RETRY_PINGS == 5
\* the octet derive_gateway_ip writes
GatewayOctet == 1

\* ------------------------------------------------------- inventory data
\* store numbers as character codes: "7", "10"
Store7 == <<55>>
Store10 == <<49, 48>>

\* addresses as their dot-separated components; a component that is not a
\* decimal number is -1, the empty string is the empty sequence
EmptyStr == <<>>
IpA == <<10, 0, 0, 5>>
IpB == <<10, 0, 0, 9>>
HostC == <<-1>>
GwB == <<10, 0, 0, 254>>

\* the rows load_rows can yield (StoreNumber and IPAddress non-empty)
RowA == [StoreNumber |-> Store7, IPAddress |-> IpA, Gateway |-> EmptyStr]
RowB == [StoreNumber |-> Store10, IPAddress |-> IpB, Gateway |-> GwB]
RowC == [StoreNumber |-> Store10, IPAddress |-> HostC, Gateway |-> EmptyStr]
RowUniverse == {RowA, RowB, RowC}

SeqsUpTo(S, n) == UNION {[1..k -> S] : k \in 0..n}
Inventories == SeqsUpTo(RowUniverse, MaxRows)

Range(s) == {s[i] : i \in 1..Len(s)}

\* ------------------------------------------------------- store_sort_key
IsDigit(c) == c \in 48..57

RECURSIVE LeadingDigits(_)
LeadingDigits(s) ==
    IF s = <<>> \/ ~IsDigit(Head(s)) THEN <<>>
    ELSE <<Head(s)>> \o LeadingDigits(Tail(s))

RECURSIVE IntOf(_)
IntOf(ds) ==
    IF ds = <<>> THEN 0
    ELSE 10 * IntOf(SubSeq(ds, 1, Len(ds) - 1)) + (ds[Len(ds)] - 48)

RECURSIVE StrLess(_, _)
StrLess(a, b) ==
    IF b = <<>> THEN FALSE
    ELSE IF a = <<>> THEN TRUE
    ELSE IF Head(a) # Head(b) THEN Head(a) < Head(b)
    ELSE StrLess(Tail(a), Tail(b))

\* the key is (int(digits), store), or (10**12, store) without leading
\* digits. 10**12 is beyond the integers of the checker, so the key carries
\* a flag instead: every store number modelled has fewer than 13 digits, and
\* its number is below 10**12
store_sort_key(store) ==
    IF LeadingDigits(store) # <<>>
    THEN [nodigits |-> FALSE, num |-> IntOf(LeadingDigits(store)), str |-> store]
    ELSE [nodigits |-> TRUE, num |-> 0, str |-> store]

\* Python's tuple comparison of two keys
KeyLess(k1, k2) ==
    IF k1.nodigits # k2.nodigits THEN k2.nodigits
    ELSE IF k1.num # k2.num THEN k1.num < k2.num
    ELSE StrLess(k1.str, k2.str)

\* list.sort(key=lambda x: store_sort_key(x[0])): stable, so items with the
\* same store keep the order they had in the list
RECURSIVE InsertByStore(_, _)
InsertByStore(x, sorted) ==
    IF sorted = <<>> THEN <<x>>
    ELSE IF KeyLess(store_sort_key(x[1]), store_sort_key(Head(sorted)[1]))
         THEN <<x>> \o sorted
         ELSE <<Head(sorted)>> \o InsertByStore(x, Tail(sorted))

RECURSIVE SortByStore(_)
SortByStore(s) ==
    IF s = <<>> THEN <<>>
    ELSE InsertByStore(s[Len(s)], SortByStore(SubSeq(s, 1, Len(s) - 1)))

\* ---------------------------------------------------- derive_gateway_ip
\* ipaddress.ip_address(server_ip).version, 0 when it raises ValueError
IpVersion(a) ==
    IF Len(a) = 4 /\ \A i \in 1..4 : a[i] \in 0..255 THEN 4 ELSE 0

derive_gateway_ip(server_ip) ==
    IF IpVersion(server_ip) # 4 THEN EmptyStr
    ELSE IF Len(server_ip) # 4 THEN EmptyStr
    ELSE [server_ip EXCEPT ![4] = GatewayOctet]

\* store_to_gateway = {r["StoreNumber"]: r["Gateway"] for r in rows}, read
\* with .get(store, ""): a later row of the same store replaces an earlier
RECURSIVE StoreToGateway(_, _)
StoreToGateway(rows, store) ==
    IF rows = <<>> THEN EmptyStr
    ELSE IF rows[Len(rows)].StoreNumber = store THEN rows[Len(rows)].Gateway
    ELSE StoreToGateway(SubSeq(rows, 1, Len(rows) - 1), store)

\* the address check_gateways_for_failures pings for a failed (store, ip)
GatewayFor(rows, store, srv_ip) ==
    IF StoreToGateway(rows, store) # EmptyStr
    THEN StoreToGateway(rows, store)
    ELSE derive_gateway_ip(srv_ip)

RECURSIVE GwTargets(_, _)
GwTargets(rows, fails) ==
    IF fails = <<>> THEN <<>>
    ELSE LET f == Head(fails)
             gw_ip == GatewayFor(rows, f[1], f[2])
         IN (IF gw_ip # EmptyStr THEN <<<<f[1], f[2], gw_ip>>>> ELSE <<>>)
            \o GwTargets(rows, Tail(fails))

\* targets = [(r["StoreNumber"], r["IPAddress"]) for r in rows]
Targets(rows) == [i \in 1..Len(rows) |-> <<rows[i].StoreNumber, rows[i].IPAddress>>]

\* -------------------------------------------------------------- state
VARIABLES
    inventory,            \* the rows load_rows yields from the stores CSV
    args,                 \* the command line options of the current run
    pc,                   \* where _run_once is
    run_no,               \* runs started so far; the run's timestamp
    pass,                 \* the pass whose futures are in flight
    targets,              \* the targets submitted to the executor
    pending,              \* indices of futures not yet collected
    raised,               \* indices of collected futures whose probe raised
    hung,                 \* indices of futures whose ping command hangs
    successes, failures,  \* the lists as_completed appends to
    initial_successes, initial_failures,
    retry_ran, retry_successes, retry_failures,
    confirm_ran, pre_confirm_failures, confirm_successes, confirm_failures,
    final_failures,
    gw_targets, gw_online, gw_offline,
    failures_detail, map_status_rows,
    new_offlines, back_online, alert_rows,
    teams_webhook,        \* args.teams_webhook as the alert code read it
    summary,
    exit_code,            \* the code the run passed to sys.exit, NoExit for none
    sinks,                \* what the run did to each of its sinks
    latest,               \* the "latest" files of the output directory
    up_before,            \* the endpoints UP in the snapshot this run diffed against
    prev,                 \* what the previous completed run produced
    db,                   \* the committed content of the SQLite database
    wal,                  \* the content the open write transaction has made
    lock,                 \* the writer that holds the write lock, 0 for none
    wpc,                  \* where each writer is in write_run_to_sqlite
    wjob,                 \* the arguments of each writer's call
    writes,               \* calls of write_run_to_sqlite so far
    committed,            \* per run id, the last call that committed
    fs,                   \* the inode behind each path of the output directory
    inodes,               \* the content of each inode, a sequence of chunks
    pub,                  \* where each publishing run is in write_json
    publishes,            \* calls of write_json so far
    reader,               \* a process reading the "latest" file
    feed,                 \* the rows sanitize_public_feed.py read from --input
    cleaned               \* what sanitize_rows returned for them

passVars == <<pass, targets, pending, raised, hung, successes, failures>>
scanVars == <<initial_successes, initial_failures,
              retry_ran, retry_successes, retry_failures,
              confirm_ran, pre_confirm_failures, confirm_successes,
              confirm_failures, final_failures,
              gw_targets, gw_online, gw_offline>>
outVars == <<failures_detail, map_status_rows, new_offlines, back_online,
             alert_rows, teams_webhook, summary, exit_code, sinks>>
histVars == <<up_before, prev>>
storeVars == <<db, wal, lock, wpc, wjob, writes, committed>>
runVars == <<inventory, args, pc, run_no, passVars, scanVars, outVars, latest,
             histVars>>
fileVars == <<fs, inodes, pub, publishes, reader>>
vars == <<runVars, storeVars, fileVars, feed, cleaned>>

\* ---------------------------------------------------- the SQLite database
\* the processes that can be in write_run_to_sqlite at the same time
Writers == {1, 2}
RunIds == {"run a", "run b"}

\* the tables runs, store_status_events and alerts, by the columns that tell
\* a row's run, the call that wrote it and its place in the call's list;
\* the summary row carries the counts of the run
EmptyDb == [runs |-> {}, events |-> <<>>, alerts |-> <<>>]

NoJob == [run_id |-> "", call |-> 0, rows |-> 0, alerts |-> 0]
NoCommit == [call |-> 0, rows |-> 0, alerts |-> 0, replaced |-> 0,
             replaced_rows |-> 0]

\* the calls a writer can make: a run id, the number of map status rows
\* and the number of alert rows of the run
JobSets == [run_id : RunIds, rows : {0, 2}, alerts : {0, 1}]

StoreInit ==
    /\ db = EmptyDb
    /\ wal = EmptyDb
    /\ lock = 0
    /\ wpc = [w \in Writers |-> "idle"]
    /\ wjob = [w \in Writers |-> NoJob]
    /\ writes = 0
    /\ committed = [id \in RunIds |-> NoCommit]


\* ------------------------------------------- one "latest" file on disk
\* the runs that can be in write_json for the same path at the same time
Publishers == {1, 2}

\* the path of the "latest" file and the path of its temporary file
Paths == {"latest", "latest.tmp"}

\* a file is written in two chunks: the buffer of the file object is
\* flushed when it is full and when the file is closed. The chunks carry
\* the call they belong to; call 0 wrote the file found at the start
Chunk(call, part) == [call |-> call, part |-> part]
Doc(call) == <<Chunk(call, 1), Chunk(call, 2)>>

\* the bytes a write past the end of a file leaves in the gap
Hole == Chunk(0, 0)

NoInode == 0
NoHandle == [pc |-> "idle", ino |-> NoInode, pos |-> 0, call |-> 0]
NoReader == [pc |-> "idle", ino |-> NoInode, pos |-> 0, seen |-> <<>>]

\* the output directory holds the file of an earlier run, or none
FileInit ==
    /\ \/ fs = [p \in Paths |-> NoInode] /\ inodes = <<>>
       \/ fs = [p \in Paths |-> IF p = "latest" THEN 1 ELSE NoInode]
          /\ inodes = <<Doc(0)>>
    /\ pub = [p \in Publishers |-> NoHandle]
    /\ publishes = 0
    /\ reader = NoReader

\* the files of the output directory at the grain of the runs' claims
FileIdle ==
    /\ fs = [p \in Paths |-> NoInode]
    /\ inodes = <<>>
    /\ pub = [p \in Publishers |-> NoHandle]
    /\ publishes = 0
    /\ reader = NoReader

\* sanitize_public_feed.py has not been run
FeedIdle ==
    /\ feed = <<>>
    /\ cleaned = [done |-> FALSE, rows |-> <<>>]

\* the options that steer the scan. The options that only shape an output
\* (--teams-webhook) are drawn where _run_once reads them
ArgSets == [gateway_check : BOOLEAN, retry_pings : {0, RETRY_PINGS}]

NoArgs == [gateway_check |-> FALSE, retry_pings |-> 0]

NoSummary == [total_stores |-> 0]

\* sys.exit was not called
NoExit == -1

\* the sinks of a run in the order _run_once writes them: the per-run
\* files, the "latest" files, the SQLite database, the publish directory
\* and the ZIP of the per-run folder
SinkOrder == <<"run_files", "latest", "sqlite", "publish", "zip">>

\* no sink was reached; out_dir tells whether the run made the output
\* directory
NoSinks ==
    [out_dir |-> FALSE, run_files |-> "none", latest |-> "none", sqlite |-> "none",
     publish |-> "none", zip |-> "none", warnings |-> {}, recap |-> FALSE,
     quiet |-> FALSE]
\* the "latest" files: map_status_latest.json by the fields of its rows
\* that load_latest_map_status' caller reads back, the other files by the
\* timestamp of the run that wrote them
\* json is what json.load makes of map_status_latest.json: "list", "object"
\* (valid JSON that is not a list) or "invalid" (json.load raises)
\* failures_csv is the run that wrote failures_latest.csv, Absent for no
\* such file
Absent == -1

NoLatest == [exists |-> FALSE, json |-> "list", map_status |-> <<>>, written_by |-> 0,
             failures_csv |-> Absent]
NoPrev == [exists |-> FALSE, all_succeeded |-> FALSE, new_offlines |-> <<>>,
           up_before |-> {}]

LatestRow(row) ==
    [store |-> row.store, server_ip |-> row.server_ip,
     server_up |-> row.server_up, timestamp |-> row.timestamp]

\* a map_status_latest.json an earlier run, on an inventory of the row
\* RowA alone, left in the output directory
EarlierLatest ==
    {[exists |-> TRUE, json |-> "list", written_by |-> 0, failures_csv |-> Absent,
      map_status |-> <<[store |-> RowA.StoreNumber, server_ip |-> RowA.IPAddress,
                        server_up |-> up, timestamp |-> 0]>>] :
        up \in {"true", "false"}}

\* an element of the list that is not a JSON object
NotAnObject == [scalar |-> 0]

\* a map_status_latest.json that is not what a run writes: not valid JSON,
\* valid JSON that is not a list, or a list with an element that is not an
\* object, alone or before a row of RowA
DamagedLatest ==
    {[exists |-> TRUE, json |-> j, written_by |-> 0, failures_csv |-> Absent,
      map_status |-> <<>>] :
        j \in {"invalid", "object"}}
    \cup {[exists |-> TRUE, json |-> "list", written_by |-> 0, failures_csv |-> Absent,
           map_status |-> <<NotAnObject>>]}
    \cup {[exists |-> TRUE, json |-> "list", written_by |-> 0, failures_csv |-> Absent,
           map_status |-> <<NotAnObject,
                            [store |-> RowA.StoreNumber, server_ip |-> RowA.IPAddress,
                             server_up |-> up, timestamp |-> 0]>>] :
            up \in {"true", "false"}}

RunInit(latests) ==
    /\ inventory \in Inventories
    /\ args = NoArgs
    /\ pc = "idle"
    /\ run_no = 0
    /\ pass = "none"
    /\ targets = <<>>
    /\ pending = {}
    /\ raised = {}
    /\ hung = {}
    /\ successes = <<>>
    /\ failures = <<>>
    /\ initial_successes = <<>>
    /\ initial_failures = <<>>
    /\ retry_ran = FALSE
    /\ retry_successes = <<>>
    /\ retry_failures = <<>>
    /\ confirm_ran = FALSE
    /\ pre_confirm_failures = <<>>
    /\ confirm_successes = <<>>
    /\ confirm_failures = <<>>
    /\ final_failures = <<>>
    /\ gw_targets = <<>>
    /\ gw_online = <<>>
    /\ gw_offline = <<>>
    /\ failures_detail = <<>>
    /\ map_status_rows = <<>>
    /\ new_offlines = <<>>
    /\ back_online = <<>>
    /\ alert_rows = <<>>
    /\ teams_webhook = "unread"
    /\ summary = NoSummary
    /\ exit_code = NoExit
    /\ sinks = NoSinks
    /\ latest \in latests
    /\ up_before = {}
    /\ prev = NoPrev
    /\ StoreInit

\* a run, with no process inside write_json or reading a "latest" file
InitWith(latests) == RunInit(latests) /\ FileIdle /\ FeedIdle

\* the output directory is new, or an earlier run wrote to it
Init == InitWith({NoLatest} \cup EarlierLatest)

\* the output directory has no map_status_latest.json or a damaged one
InitDamaged == InitWith({NoLatest} \cup DamagedLatest)

\* ex.submit(ping_host, ...) for every target of a pass
Submit(p, tgts) ==
    /\ pass' = p
    /\ targets' = tgts
    /\ pending' = 1..Len(tgts)
    /\ raised' = {}
    /\ hung' = {}
    /\ successes' = <<>>
    /\ failures' = <<>>

NoPass ==
    /\ pass' = "none"
    /\ targets' = <<>>
    /\ pending' = {}
    /\ raised' = {}
    /\ hung' = {}
    /\ successes' = <<>>
    /\ failures' = <<>>

\* what the claims about consecutive runs need of the run before: whether
\* every ping of it succeeded, the endpoints it reported as new offline and
\* the endpoints that were UP in the snapshot it diffed against
RunRecord ==
    [exists |-> TRUE,
     all_succeeded |-> initial_failures = <<>>,
     new_offlines |-> [i \in 1..Len(new_offlines) |->
                          <<new_offlines[i].store, new_offlines[i].server_ip>>],
     up_before |-> up_before]

ResetScan ==
    /\ initial_successes' = <<>>
    /\ initial_failures' = <<>>
    /\ retry_ran' = FALSE
    /\ retry_successes' = <<>>
    /\ retry_failures' = <<>>
    /\ confirm_ran' = FALSE
    /\ pre_confirm_failures' = <<>>
    /\ confirm_successes' = <<>>
    /\ confirm_failures' = <<>>
    /\ final_failures' = <<>>
    /\ gw_targets' = <<>>
    /\ gw_online' = <<>>
    /\ gw_offline' = <<>>

ResetOut ==
    /\ failures_detail' = <<>>
    /\ map_status_rows' = <<>>
    /\ new_offlines' = <<>>
    /\ back_online' = <<>>
    /\ alert_rows' = <<>>
    /\ teams_webhook' = "unread"
    /\ summary' = NoSummary

\* what load_rows finds at the path of the stores CSV: a file with the
\* required headers, whose usable rows are the inventory, no file, or a
\* file without the required headers
InventorySources == {"rows", "missing", "no headers"}

\* the code _run_once leaves the process with before the scan: load_rows
\* calls sys.exit(1) for no file and for missing headers (lines 205-231),
\* _run_once calls sys.exit(0) for no usable row (lines 748-752)
ExitCode(src, rows) ==
    IF src \in {"missing", "no headers"} THEN 1
    ELSE IF Len(rows) = 0 THEN 0
    ELSE NoExit

\* a run that makes the output directory before it reads the inventory
OutDirMade_BeforeLoad(code) == TRUE

\* base_out_dir.mkdir is reached only past both exits (line 756)
OutDirMade(code) == code = NoExit

\* _run_once up to the submission of the initial pass
BeginRun(limit) ==
    /\ run_no < limit
    /\ \E a \in ArgSets : args' = a
    /\ run_no' = run_no + 1
    /\ prev' = IF pc = "done" THEN RunRecord ELSE prev
    /\ up_before' = {}
    /\ ResetScan
    /\ ResetOut
    /\ \E src \in InventorySources :
         /\ exit_code' = ExitCode(src, inventory)
         /\ sinks' = [NoSinks EXCEPT !.out_dir = OutDirMade(ExitCode(src, inventory))]
         /\ IF ExitCode(src, inventory) # NoExit
            THEN pc' = "exit" /\ NoPass
            ELSE pc' = "scan" /\ Submit("initial", Targets(inventory))
    /\ UNCHANGED <<storeVars, fileVars, feed, cleaned, inventory, latest>>

\* main calls _run_once: the first run of the process, or the next
\* iteration of the --loop after a run that returned (lines 1212-1220)
StartRun(limit) == pc \in {"idle", "done"} /\ BeginRun(limit)

\* the script is started again after a process that ended in sys.exit or in
\* an exception: main calls _run_once in the new process (line 1220)
RestartRun(limit) == pc \in {"exit", "crashed"} /\ BeginRun(limit)

\* what a probe does: the ping command exits with 0, exits with another
\* code, or the probe raises (subprocess.run in ping_host, or the future)
ProbeOutcomes == {"rc 0", "rc not 0", "raises"}

\* a ping command run without a timeout: the probe of a command that hangs
\* never returns
OutcomesOf_NoTimeout(i) == IF i \in hung THEN {} ELSE ProbeOutcomes

\* what subprocess.run(cmd, ..., timeout=max(5, ...)) yields for the probe
\* of target i: a command that hangs is killed at the timeout and
\* subprocess.run raises TimeoutExpired (lines 144-150)
OutcomesOf(i) == IF i \in hung THEN {"timeout"} ELSE ProbeOutcomes

\* ping_host: returncode == 0, and False for an exception, TimeoutExpired
\* included (lines 144-153)
ping_host(outcome) ==
    IF outcome \in {"raises", "timeout"} THEN FALSE ELSE outcome = "rc 0"

\* a collector that takes every future that did not report "no answer"
\* for a success
FutureOk_OnlyNonZeroFails(outcome) == outcome # "rc not 0"

\* ok = bool(fut.result()), and False when fut.result() raises (lines
\* 482-486, 532-536)
FutureOk(outcome) == IF outcome = "raises" THEN FALSE ELSE ping_host(outcome)

\* one iteration of parallel_ping's as_completed loop: the future of
\* target i completes
PingDone ==
    /\ pc = "scan"
    /\ pass \in {"initial", "retry", "confirm"}
    /\ \E i \in pending : \E outcome \in OutcomesOf(i) :
        /\ pending' = pending \ {i}
        /\ raised' = IF outcome = "raises" THEN raised \cup {i} ELSE raised
        /\ IF FutureOk(outcome)
           THEN successes' = Append(successes, targets[i]) /\ UNCHANGED failures
           ELSE failures' = Append(failures, targets[i]) /\ UNCHANGED successes
    /\ UNCHANGED <<storeVars, fileVars, feed, cleaned, inventory, args, pc, run_no, pass, targets, hung,
                   scanVars, outVars, latest, histVars>>

\* one iteration of check_gateways_for_failures' as_completed loop
GwPingDone ==
    /\ pc = "scan"
    /\ pass = "gateway"
    /\ \E i \in pending : \E outcome \in OutcomesOf(i) :
        /\ pending' = pending \ {i}
        /\ raised' = IF outcome = "raises" THEN raised \cup {i} ELSE raised
        /\ IF FutureOk(outcome)
           THEN successes' = Append(successes, targets[i]) /\ UNCHANGED failures
           ELSE failures' = Append(failures, targets[i]) /\ UNCHANGED successes
    /\ UNCHANGED <<storeVars, fileVars, feed, cleaned, inventory, args, pc, run_no, pass, targets, hung,
                   scanVars, outVars, latest, histVars>>

\* the ping command of a future not yet collected stops answering and
\* stays alive: nothing of the run changes until its timeout fires
ProbeHangs ==
    /\ pc = "scan"
    /\ \E i \in pending \ hung : hung' = hung \cup {i}
    /\ UNCHANGED <<storeVars, fileVars, feed, cleaned, inventory, args, pc, run_no, pass, targets, pending,
                   raised, successes, failures, scanVars, outVars, latest, histVars>>

\* a scan that runs the final confirm pass whenever --gateway-check is
\* given, failures or not
ConfirmOrFinish_Always(ff) ==
    IF args.gateway_check
    THEN /\ pre_confirm_failures' = ff
         /\ confirm_ran' = TRUE
         /\ Submit("confirm", ff)
         /\ pc' = "scan"
    ELSE /\ pre_confirm_failures' = <<>>
         /\ confirm_ran' = FALSE
         /\ NoPass
         /\ pc' = "scanned"

\* lines 807-828: with --gateway-check and failures left, the final confirm
\* pass is submitted over them; otherwise the scan is over
ConfirmOrFinish(ff) ==
    IF args.gateway_check /\ ff # <<>>
    THEN /\ pre_confirm_failures' = ff
         /\ confirm_ran' = TRUE
         /\ Submit("confirm", ff)
         /\ pc' = "scan"
    ELSE /\ pre_confirm_failures' = <<>>
         /\ confirm_ran' = FALSE
         /\ NoPass
         /\ pc' = "scanned"

\* the initial parallel_ping returns its sorted lists; lines 786-805
JoinInitial ==
    /\ pc = "scan" /\ pass = "initial" /\ pending = {}
    /\ initial_successes' = SortByStore(successes)
    /\ initial_failures' = SortByStore(failures)
    /\ final_failures' = SortByStore(failures)
    /\ IF SortByStore(failures) # <<>> /\ args.retry_pings > 0
       THEN /\ retry_ran' = TRUE
            /\ Submit("retry", SortByStore(failures))
            /\ UNCHANGED <<pc, pre_confirm_failures, confirm_ran>>
       ELSE /\ retry_ran' = FALSE
            /\ ConfirmOrFinish(SortByStore(failures))
    /\ UNCHANGED <<storeVars, fileVars, feed, cleaned, inventory, args, run_no, retry_successes, retry_failures,
                   confirm_successes, confirm_failures,
                   gw_targets, gw_online, gw_offline, outVars, latest, histVars>>

\* the retry parallel_ping returns; lines 803-805
JoinRetry ==
    /\ pc = "scan" /\ pass = "retry" /\ pending = {}
    /\ retry_successes' = SortByStore(successes)
    /\ retry_failures' = SortByStore(failures)
    /\ final_failures' = SortByStore(failures)
    /\ ConfirmOrFinish(SortByStore(failures))
    /\ UNCHANGED <<storeVars, fileVars, feed, cleaned, inventory, args, run_no, initial_successes, initial_failures,
                   retry_ran, confirm_successes, confirm_failures,
                   gw_targets, gw_online, gw_offline, outVars, latest, histVars>>

\* the set the gateway pass is run over (line 834)
GatewayPassInput == pre_confirm_failures

\* the final confirm parallel_ping returns; lines 826-840 up to the
\* submission of the gateway pings (none when there is no gateway target)
JoinConfirm ==
    /\ pc = "scan" /\ pass = "confirm" /\ pending = {}
    /\ confirm_successes' = SortByStore(successes)
    /\ confirm_failures' = SortByStore(failures)
    /\ final_failures' = SortByStore(failures)
    /\ gw_targets' = GwTargets(inventory, GatewayPassInput)
    /\ IF GwTargets(inventory, GatewayPassInput) = <<>>
       THEN NoPass /\ pc' = "scanned"
       ELSE Submit("gateway", GwTargets(inventory, GatewayPassInput)) /\ UNCHANGED pc
    /\ UNCHANGED <<storeVars, fileVars, feed, cleaned, inventory, args, run_no, initial_successes, initial_failures,
                   retry_ran, retry_successes, retry_failures,
                   confirm_ran, pre_confirm_failures,
                   gw_online, gw_offline, outVars, latest, histVars>>

\* check_gateways_for_failures returns its sorted lists (lines 547-549)
JoinGateway ==
    /\ pc = "scan" /\ pass = "gateway" /\ pending = {}
    /\ gw_online' = SortByStore(successes)
    /\ gw_offline' = SortByStore(failures)
    /\ NoPass
    /\ pc' = "scanned"
    /\ UNCHANGED <<storeVars, fileVars, feed, cleaned, inventory, args, run_no, initial_successes, initial_failures,
                   retry_ran, retry_successes, retry_failures,
                   confirm_ran, pre_confirm_failures, confirm_successes,
                   confirm_failures, final_failures, gw_targets,
                   outVars, latest, histVars>>

\* ------------------------------------------------- building the outputs
\* _to_bool on a string: value.strip().lower() == "true"; the strings of
\* the model are lower case and stripped
ToBool(v) == v = "true"

\* the value write_run_to_sqlite stores for gateway_up (line 415)
SqlGatewayUp(v) == IF v = "" THEN "NULL" ELSE IF ToBool(v) THEN "1" ELSE "0"

HasKey3(triples, key) ==
    \E i \in 1..Len(triples) : <<triples[i][1], triples[i][2]>> = key

\* gw_lookup (lines 865-869): gw_online entries are written first, the
\* gw_offline entries after them, so an offline entry wins for a shared key
GwLookupHas(key) == HasKey3(gw_online, key) \/ HasKey3(gw_offline, key)
GwLookup(key) == ~HasKey3(gw_offline, key)

\* the gateway_up string of a failures_detail row (lines 862-873)
FailureGatewayUp(key) ==
    IF args.gateway_check /\ (gw_online # <<>> \/ gw_offline # <<>>)
       /\ GwLookupHas(key)
    THEN (IF GwLookup(key) THEN "true" ELSE "false")
    ELSE ""

\* failures_detail (lines 848-873); the run's timestamp is its number
FailureDetail(f) ==
    [timestamp |-> run_no,
     store |-> f[1],
     server_ip |-> f[2],
     stage_failed |-> IF initial_failures # <<>> THEN "retry" ELSE "initial",
     gateway_ip |-> GatewayFor(inventory, f[1], f[2]),
     gateway_up |-> FailureGatewayUp(<<f[1], f[2]>>)]

\* the list a bug would iterate if it kept the failures of the first pass
FailureList_Initial == initial_failures

\* the list failures_detail is built from (line 849)
FailureList == final_failures

FailuresDetail == [i \in 1..Len(FailureList) |-> FailureDetail(FailureList[i])]

\* failure_map (line 876): keyed by (store, server_ip), a later entry wins
InFailureMap(fd, key) ==
    \E i \in 1..Len(fd) : <<fd[i].store, fd[i].server_ip>> = key

FailureMapGet(fd, key) ==
    fd[CHOOSE i \in 1..Len(fd) :
          /\ <<fd[i].store, fd[i].server_ip>> = key
          /\ \A j \in (i + 1)..Len(fd) : <<fd[j].store, fd[j].server_ip>> # key]

\* lines 890-896: Python's None / True / False
GatewayUpOf(server_up, gw_val) ==
    IF server_up THEN "None"
    ELSE IF gw_val = "true" THEN "True"
    ELSE IF gw_val = "false" THEN "False"
    ELSE "None"

\* a classification that takes an unchecked gateway for a reachable one
Classify_UnknownAsUp(server_up, gateway_up) ==
    IF server_up THEN [status |-> "green", status_code |-> 0]
    ELSE IF gateway_up # "False" THEN [status |-> "yellow", status_code |-> 1]
    ELSE [status |-> "red", status_code |-> 2]

\* lines 898-907
Classify(server_up, gateway_up) ==
    IF server_up THEN [status |-> "green", status_code |-> 0]
    ELSE IF gateway_up = "True" THEN [status |-> "yellow", status_code |-> 1]
    ELSE [status |-> "red", status_code |-> 2]

\* the gateway_up string of a map status row (line 918)
GatewayUpStr(gateway_up) ==
    IF gateway_up = "None" THEN ""
    ELSE IF gateway_up = "True" THEN "true" ELSE "false"

\* line 888
ServerUp(fd, key) == ~InFailureMap(fd, key)

\* one map status row (lines 878-927)
MapStatusRow(rec, fd) ==
    LET key == <<rec.StoreNumber, rec.IPAddress>>
        server_up == ServerUp(fd, key)
        gateway_up == GatewayUpOf(server_up,
                          IF server_up THEN "" ELSE FailureMapGet(fd, key).gateway_up)
        cls == Classify(server_up, gateway_up)
    IN [timestamp |-> run_no,
        store |-> rec.StoreNumber,
        server_ip |-> rec.IPAddress,
        gateway_ip |-> IF rec.Gateway # EmptyStr THEN rec.Gateway
                       ELSE derive_gateway_ip(rec.IPAddress),
        server_up |-> IF server_up THEN "true" ELSE "false",
        gateway_up |-> GatewayUpStr(gateway_up),
        status |-> cls.status,
        status_code |-> cls.status_code]

MapStatusRows(fd) == [i \in 1..Len(inventory) |-> MapStatusRow(inventory[i], fd)]

\* isinstance(row, dict) and the row has a store and a server_ip
IsUsableRow(e) ==
    /\ {"store", "server_ip"} \subseteq DOMAIN e
    /\ e.store # EmptyStr
    /\ e.server_ip # EmptyStr

\* a loader that gives up on a list as soon as one element is not a row
\* object
PreviousMapRows_AllOrNothing ==
    IF /\ latest.exists
       /\ latest.json = "list"
       /\ \A i \in 1..Len(latest.map_status) : IsUsableRow(latest.map_status[i])
    THEN latest.map_status
    ELSE <<>>

\* a diff that reads map_status_latest.json after the run has written its
\* own rows to it
PreviousMapRows_OwnSnapshot ==
    [i \in 1..Len(inventory) |-> LatestRow(MapStatusRow(inventory[i], FailuresDetail))]

\* load_latest_map_status: {} for a missing file, for a file json.load
\* raises on and for JSON that is not a list; else the usable rows of the
\* list by (store, server_ip), a later row replacing an earlier one
PreviousMapRows ==
    IF latest.exists /\ latest.json = "list"
    THEN SelectSeq(latest.map_status, IsUsableRow)
    ELSE <<>>

PrevHas(key) ==
    \E i \in 1..Len(PreviousMapRows) :
        <<PreviousMapRows[i].store, PreviousMapRows[i].server_ip>> = key

PrevGet(key) ==
    LET pm == PreviousMapRows
    IN pm[CHOOSE i \in 1..Len(pm) :
             /\ <<pm[i].store, pm[i].server_ip>> = key
             /\ \A j \in (i + 1)..Len(pm) : <<pm[j].store, pm[j].server_ip>> # key]

RowKey(row) == <<row.store, row.server_ip>>

\* a diff that takes an endpoint without a prior row for one that was UP
IsNewOffline_FirstSighting(row) ==
    /\ IF PrevHas(RowKey(row)) THEN ToBool(PrevGet(RowKey(row)).server_up) ELSE TRUE
    /\ ~ToBool(row.server_up)

\* a diff that reports every unreachable endpoint with a prior row
IsNewOffline_WhileDown(row) ==
    /\ PrevHas(RowKey(row))
    /\ ~ToBool(row.server_up)

\* lines 942-943
IsNewOffline(row) ==
    /\ PrevHas(RowKey(row))
    /\ ToBool(PrevGet(RowKey(row)).server_up)
    /\ ~ToBool(row.server_up)

\* a diff that reports every reachable endpoint with a prior row
IsBackOnline_NoPriorState(row) ==
    /\ PrevHas(RowKey(row))
    /\ ToBool(row.server_up)

\* lines 944-947
IsBackOnline(row) ==
    /\ PrevHas(RowKey(row))
    /\ ~ToBool(PrevGet(RowKey(row)).server_up)
    /\ ToBool(row.server_up)

RecoveredRow(row) ==
    [timestamp |-> row.timestamp, store |-> row.store,
     server_ip |-> row.server_ip, gateway_ip |-> row.gateway_ip,
     server_up |-> row.server_up, gateway_up |-> row.gateway_up,
     status |-> row.status, status_code |-> row.status_code,
     last_seen_offline_at |-> PrevGet(RowKey(row)).timestamp]

RECURSIVE NewOfflines(_)
NewOfflines(rows) ==
    IF rows = <<>> THEN <<>>
    ELSE (IF IsNewOffline(Head(rows)) THEN <<Head(rows)>> ELSE <<>>)
         \o NewOfflines(Tail(rows))

RECURSIVE BackOnline(_)
BackOnline(rows) ==
    IF rows = <<>> THEN <<>>
    ELSE (IF IsBackOnline(Head(rows)) THEN <<RecoveredRow(Head(rows))>> ELSE <<>>)
         \o BackOnline(Tail(rows))

\* --teams-webhook: not given (""), a URL urllib.request.Request takes, or a
\* string without a URL scheme, for which Request raises ValueError
WebhookSettings == {"", "url", "noscheme"}

\* what urlopen does with the request: an answer, an HTTPError, any other
\* exception (URLError, timeout)
DeliveryOutcomes == {"answer", "HTTPError", "Exception"}

\* send_teams_webhook: Request is built outside the try (lines 669-674), so
\* its ValueError leaves the function; urlopen's errors are returned
send_teams_webhook(webhook_url, outcome) ==
    IF webhook_url = "noscheme"
    THEN [raised |-> TRUE, ok |-> FALSE, detail |-> "ValueError"]
    ELSE IF outcome = "answer"
    THEN [raised |-> FALSE, ok |-> TRUE, detail |-> "body"]
    ELSE IF outcome = "HTTPError"
    THEN [raised |-> FALSE, ok |-> FALSE, detail |-> "HTTP code body"]
    ELSE [raised |-> FALSE, ok |-> FALSE, detail |-> "str(ex)"]

\* an alert row (lines 956-972, 984-1000)
AlertRow(type, items, webhook, outcome) ==
    [timestamp |-> run_no,
     alert_type |-> type,
     item_count |-> Len(items),
     sent |-> webhook # "",
     delivery_ok |-> IF webhook = "" THEN "None"
                     ELSE IF send_teams_webhook(webhook, outcome).ok
                          THEN "True" ELSE "False",
     delivery_detail |-> IF webhook = "" THEN ""
                         ELSE send_teams_webhook(webhook, outcome).detail,
     message |-> [about |-> type, items |-> Len(items)]]

\* the row write_run_to_sqlite inserts into alerts for an alert row (lines
\* 439-448)
SqlAlertRow(a) ==
    [run_id |-> a.timestamp,
     alert_type |-> a.alert_type,
     item_count |-> a.item_count,
     sent |-> IF a.sent THEN "1" ELSE "0",
     delivery_ok |-> IF a.delivery_ok = "None" THEN "NULL"
                     ELSE IF a.delivery_ok = "True" THEN "1" ELSE "0",
     delivery_detail |-> a.delivery_detail,
     message |-> a.message]

\* the alerts of the run in the historical store once write_run_to_sqlite
\* has returned
SqliteAlerts == [i \in 1..Len(alert_rows) |-> SqlAlertRow(alert_rows[i])]

AlertRows(offl, back, webhook, o1, o2) ==
    (IF offl # <<>> THEN <<AlertRow("offline", offl, webhook, o1)>> ELSE <<>>)
    \o (IF back # <<>>
        THEN <<AlertRow("back_online", back, webhook, o2)>> ELSE <<>>)

\* the alert code calls send_teams_webhook and the call raises (lines 966-967,
\* 994-995: no try around the call)
AlertRaises(offl, back, webhook) ==
    /\ offl # <<>> \/ back # <<>>
    /\ webhook # ""
    /\ send_teams_webhook(webhook, "answer").raised

\* a summary that takes for recovered by the retry everything that failed
\* the initial pass and is not a final timeout
Summary_RecoveredIsTheRest(offl, back) ==
    [timestamp |-> run_no,
     total_stores |-> Len(inventory),
     initial_responding |-> Len(initial_successes),
     initial_timeouts |-> Len(initial_failures),
     recovered_after_retry |-> Len(initial_failures) - Len(final_failures),
     recovered_after_final_confirm |-> Len(confirm_successes),
     final_timeouts |-> Len(final_failures),
     gateway_check_enabled |-> args.gateway_check,
     gateway_online_count |-> Len(gw_online),
     gateway_offline_count |-> Len(gw_offline),
     new_offline_count |-> Len(offl),
     back_online_count |-> Len(back)]

\* lines 1008-1025
Summary(offl, back) ==
    [timestamp |-> run_no,
     total_stores |-> Len(inventory),
     initial_responding |-> Len(initial_successes),
     initial_timeouts |-> Len(initial_failures),
     recovered_after_retry |-> Len(retry_successes),
     recovered_after_final_confirm |-> Len(confirm_successes),
     final_timeouts |-> Len(final_failures),
     gateway_check_enabled |-> args.gateway_check,
     gateway_online_count |-> Len(gw_online),
     gateway_offline_count |-> Len(gw_offline),
     new_offline_count |-> Len(offl),
     back_online_count |-> Len(back)]

\* lines 843-1025: the failure details, the map status rows, the diff
\* against the previous latest snapshot, the alerts and the summary. The
\* alert code reads args.teams_webhook only for a transition list that is
\* not empty; when send_teams_webhook raises, the exception leaves
\* _run_once and main, and the process ends before the summary is built
BuildOutputs ==
    /\ pc = "scanned"
    /\ failures_detail' = FailuresDetail
    /\ map_status_rows' = MapStatusRows(FailuresDetail)
    /\ new_offlines' = NewOfflines(MapStatusRows(FailuresDetail))
    /\ back_online' = BackOnline(MapStatusRows(FailuresDetail))
    /\ LET offl == NewOfflines(MapStatusRows(FailuresDetail))
           back == BackOnline(MapStatusRows(FailuresDetail))
       IN IF offl = <<>> /\ back = <<>>
          THEN /\ teams_webhook' = "unread"
               /\ alert_rows' = <<>>
               /\ summary' = Summary(offl, back)
               /\ pc' = "built"
          ELSE \E webhook \in WebhookSettings, o1 \in DeliveryOutcomes,
                  o2 \in DeliveryOutcomes :
               /\ teams_webhook' = webhook
               /\ IF AlertRaises(offl, back, webhook)
                  THEN /\ alert_rows' = <<>>
                       /\ summary' = NoSummary
                       /\ pc' = "crashed"
                  ELSE /\ alert_rows' = AlertRows(offl, back, webhook, o1, o2)
                       /\ summary' = Summary(offl, back)
                       /\ pc' = "built"
    /\ up_before' = {<<PreviousMapRows[i].store, PreviousMapRows[i].server_ip>> :
                        i \in {j \in 1..Len(PreviousMapRows) :
                                  PreviousMapRows[j].server_up = "true"}}
    /\ UNCHANGED <<storeVars, fileVars, feed, cleaned, inventory, args, run_no, passVars, scanVars, latest, prev,
                   exit_code, sinks>>

\* what write_txt_report writes when --write-txt asks for the report
\* (lines 719-733): the final timeouts and, when a gateway list is not
\* empty, the two "server down" gateway lists
TxtReport ==
    [final_timeouts |-> final_failures,
     gateway_section |-> (gw_online # <<>> \/ gw_offline # <<>>),
     gw_online |-> gw_online,
     gw_offline |-> gw_offline]

\* the "latest" files in the order lines 1048-1054 write them
LatestFiles == <<"summary_latest.json", "failures_latest.json",
                 "map_status_latest.json", "map_status_latest.csv",
                 "failures_latest.csv">>

\* what the file system and the options make of the output stage of a
\* run: export, zip: the per-run files and the ZIP are not asked for
\* ("off"), written ("ok") or their write raises; latest_fail: the place in
\* LatestFiles of the write that raises, 0 for none; sqlite, publish:
\* written or raising; write_csv, quiet: the options of those names. The
\* ZIP needs the per-run folder, failures_latest.csv needs --write-csv
SinkOutcomes ==
    {o \in [export : {"off", "ok", "raises"}, write_csv : BOOLEAN,
            latest_fail : 0..Len(LatestFiles), sqlite : {"ok", "raises"},
            publish : {"ok", "raises"}, zip : {"off", "ok", "raises"},
            quiet : BOOLEAN] :
        /\ o.zip # "off" => o.export # "off"
        /\ o.latest_fail = Len(LatestFiles) => o.write_csv}

\* an output stage in which no write raises and no option is given
SinksAllOk ==
    {[export |-> "off", write_csv |-> FALSE, latest_fail |-> 0, sqlite |-> "ok",
      publish |-> "ok", zip |-> "off", quiet |-> FALSE]}

\* what the write to a sink does under outcome o
SinkOutcome(o, sink) ==
    CASE sink = "run_files" -> o.export
      [] sink = "latest" -> IF o.latest_fail = 0 THEN "ok" ELSE "raises"
      [] sink = "sqlite" -> o.sqlite
      [] sink = "publish" -> o.publish
      [] sink = "zip" -> o.zip

\* an output stage with the publish directory as its only guarded sink
Guarded_PublishOnly(sink) == sink = "publish"

\* the sinks written inside try/except Exception (lines 1058-1061 and
\* 1064-1080); every other write is bare
Guarded(sink) == sink \in {"sqlite", "publish"}

\* the exception of this sink's write leaves _run_once
AbortsAt(o, sink) == SinkOutcome(o, sink) = "raises" /\ ~Guarded(sink)

\* the code reaches the i-th sink: no earlier write ended the run
SinkReached(o, i) == \A j \in 1..(i - 1) : ~AbortsAt(o, SinkOrder[j])

SinkState(o, i) ==
    IF SinkOutcome(o, SinkOrder[i]) = "off" THEN "off"
    ELSE IF ~SinkReached(o, i) THEN "none"
    ELSE IF SinkOutcome(o, SinkOrder[i]) = "ok" THEN "written"
    ELSE "raised"

\* the output stage returns to main
StageCompletes(o) == SinkReached(o, Len(SinkOrder) + 1)

\* the sinks after the output stage of a run that made the output
\* directory; the warnings are the WARNING lines on stderr, the recap is
\* the console recap of lines 1096-1119
SinksAfter(o) ==
    [out_dir |-> TRUE,
     run_files |-> SinkState(o, 1),
     latest |-> SinkState(o, 2),
     sqlite |-> SinkState(o, 3),
     publish |-> SinkState(o, 4),
     zip |-> SinkState(o, 5),
     warnings |-> {SinkOrder[i] : i \in {j \in 1..Len(SinkOrder) :
                      /\ SinkReached(o, j)
                      /\ SinkOutcome(o, SinkOrder[j]) = "raises"
                      /\ Guarded(SinkOrder[j])}},
     recap |-> StageCompletes(o) /\ ~o.quiet,
     quiet |-> o.quiet]

\* the i-th "latest" file is replaced by this run
LatestWritten(o, i) ==
    /\ SinkReached(o, 2)
    /\ o.latest_fail = 0 \/ i < o.latest_fail
    /\ i = Len(LatestFiles) => o.write_csv

\* the "latest" files after the output stage: summary_latest.json carries
\* the run in written_by, map_status_latest.json the rows
LatestAfter(o) ==
    [exists |-> latest.exists \/ LatestWritten(o, 3),
     json |-> IF LatestWritten(o, 3) THEN "list" ELSE latest.json,
     written_by |-> IF LatestWritten(o, 1) THEN run_no ELSE latest.written_by,
     map_status |-> IF LatestWritten(o, 3)
                    THEN [i \in 1..Len(map_status_rows) |->
                             LatestRow(map_status_rows[i])]
                    ELSE latest.map_status,
     failures_csv |-> IF LatestWritten(o, 5) THEN run_no ELSE latest.failures_csv]

\* lines 1027-1119: the per-run files, the "latest" files, the SQLite
\* write, the publish directory, the ZIP and the console recap
WriteOutputs(outcomes) ==
    /\ pc = "built"
    /\ \E o \in outcomes :
         /\ sinks' = SinksAfter(o)
         /\ latest' = LatestAfter(o)
         /\ pc' = IF StageCompletes(o) THEN "done" ELSE "crashed"
    /\ UNCHANGED <<storeVars, fileVars, feed, cleaned, inventory, args, run_no, passVars, scanVars,
                   failures_detail, map_status_rows, new_offlines, back_online,
                   alert_rows, teams_webhook, summary, exit_code, histVars>>

\* the steps of a run up to its outputs
ScanStep ==
    \/ PingDone
    \/ GwPingDone
    \/ JoinInitial
    \/ JoinRetry
    \/ JoinConfirm
    \/ JoinGateway
    \/ BuildOutputs

\* the steps of a run once it is started, on sinks that take every write
RunStep == ScanStep \/ WriteOutputs(SinksAllOk)

\* the steps of a run whose writes can raise
RunStepSinks == ScanStep \/ WriteOutputs(SinkOutcomes)

\* consecutive runs on one inventory and one output directory (--loop, or
\* a scheduler calling the script again)
Next == StartRun(MaxRuns) \/ RunStep

Spec == Init /\ [][Next]_vars

\* one run of _run_once
NextOneRun == StartRun(1) \/ RunStep

SpecOneRun == Init /\ [][NextOneRun]_vars

\* one run over a missing or damaged map_status_latest.json
SpecDamaged == InitDamaged /\ [][NextOneRun]_vars

\* consecutive runs, on no usable row or on one row, whose writes can
\* raise and whose output options vary from run to run
InitSinks == InitWith({NoLatest}) /\ inventory \in {<<>>, <<RowB>>}

NextSinks == StartRun(MaxRuns) \/ RunStepSinks

SpecSinks == InitSinks /\ [][NextSinks]_vars

\* consecutive runs whose writes can raise, the script being started again
\* after a run that aborted
SpecRestart ==
    InitSinks /\ [][StartRun(MaxRuns) \/ RestartRun(MaxRuns) \/ RunStepSinks]_vars

\* main with --loop: while True: _run_once(args); time.sleep(...) (lines
\* 1212-1218). The next run starts when _run_once has returned; the process
\* takes every step it can take
SpecLoop == InitSinks /\ [][NextSinks]_vars /\ WF_vars(NextSinks)

\* an inventory of one or two endpoints, one of them with a gateway
InitHang == InitWith({NoLatest}) /\ inventory \in {<<RowB>>, <<RowA, RowB>>}

\* one run whose ping commands can hang. The executor's worker threads and
\* the as_completed loop run whenever they can: every step of the run that
\* stays possible is taken (lines 474-486, 524-536)
SpecHang ==
    InitHang /\ [][StartRun(1) \/ RunStep \/ ProbeHangs]_vars /\ WF_vars(RunStep)

\* ------------------------------------------------ write_run_to_sqlite
\* sqlite3.connect with the default isolation_level: the module opens a
\* transaction before the first INSERT/DELETE and the statements of the
\* call are committed together (lines 366, 451)
Isolation_Autocommit == "autocommit"

Isolation == "transaction"

\* INSERT OR REPLACE INTO runs: run_id is the primary key (lines 367-392)
InsertOrReplace(runs, row) == {r \in runs : r.run_id # row.run_id} \cup {row}

\* a DELETE that removes nothing
DeleteRows_Nothing(table, run_id) == table

\* a DELETE without its WHERE clause
DeleteRows_All(table, run_id) == <<>>

\* DELETE FROM <table> WHERE run_id = ? (lines 395, 429)
DeleteRows(table, run_id) == SelectSeq(table, LAMBDA r : r.run_id # run_id)

\* executemany(INSERT ...) over the n rows of the run (lines 396-427, 430-450)
InsertRows(table, job, n) ==
    table \o [i \in 1..n |-> [run_id |-> job.run_id, call |-> job.call, idx |-> i]]

SummaryRow(job) ==
    [run_id |-> job.run_id, call |-> job.call,
     total_stores |-> job.rows, alert_count |-> job.alerts]

\* the content a statement of writer w works on
WorkingCopy(w) == IF lock = w THEN wal ELSE db

\* a statement of writer w leaves newdb: inside the transaction it is
\* visible to w alone and w keeps the write lock
Statement(w, newdb, nextpc) ==
    /\ wpc' = [wpc EXCEPT ![w] = nextpc]
    /\ IF Isolation = "transaction"
       THEN wal' = newdb /\ lock' = w /\ UNCHANGED db
       ELSE db' = newdb /\ wal' = newdb /\ lock' = 0

\* a process calls write_run_to_sqlite(db_path, summary, rows, alerts)
CallWrite(w) ==
    /\ wpc[w] = "idle"
    /\ writes < MaxWrites
    /\ writes' = writes + 1
    /\ \E j \in JobSets :
         wjob' = [wjob EXCEPT ![w] = [run_id |-> j.run_id, call |-> writes + 1,
                                      rows |-> j.rows, alerts |-> j.alerts]]
    /\ wpc' = [wpc EXCEPT ![w] = "insert_run"]
    /\ UNCHANGED <<runVars, fileVars, feed, cleaned, db, wal, lock, committed>>

\* the first statement takes the write lock when no other writer has it
InsertRun(w) ==
    /\ wpc[w] = "insert_run"
    /\ lock = 0
    /\ Statement(w, [WorkingCopy(w) EXCEPT
                        !.runs = InsertOrReplace(@, SummaryRow(wjob[w]))],
                 "delete_events")
    /\ UNCHANGED <<runVars, fileVars, feed, cleaned, wjob, writes, committed>>

\* the write lock stays with another writer for the whole timeout:
\* sqlite3.OperationalError, which _run_once catches (lines 1058-1061)
Busy(w) ==
    /\ wpc[w] = "insert_run"
    /\ lock \notin {0, w}
    /\ wpc' = [wpc EXCEPT ![w] = "idle"]
    /\ wjob' = [wjob EXCEPT ![w] = NoJob]
    /\ UNCHANGED <<runVars, fileVars, feed, cleaned, db, wal, lock, writes, committed>>

DeleteEvents(w) ==
    /\ wpc[w] = "delete_events"
    /\ lock \in {0, w}
    /\ Statement(w, [WorkingCopy(w) EXCEPT
                        !.events = DeleteRows(@, wjob[w].run_id)],
                 "insert_events")
    /\ UNCHANGED <<runVars, fileVars, feed, cleaned, wjob, writes, committed>>

\* if map_status_rows: executemany(...)
InsertEvents(w) ==
    /\ wpc[w] = "insert_events"
    /\ lock \in {0, w}
    /\ Statement(w, [WorkingCopy(w) EXCEPT
                        !.events = InsertRows(@, wjob[w], wjob[w].rows)],
                 "delete_alerts")
    /\ UNCHANGED <<runVars, fileVars, feed, cleaned, wjob, writes, committed>>

DeleteAlerts(w) ==
    /\ wpc[w] = "delete_alerts"
    /\ lock \in {0, w}
    /\ Statement(w, [WorkingCopy(w) EXCEPT
                        !.alerts = DeleteRows(@, wjob[w].run_id)],
                 "insert_alerts")
    /\ UNCHANGED <<runVars, fileVars, feed, cleaned, wjob, writes, committed>>

\* if alert_rows: executemany(...)
InsertAlerts(w) ==
    /\ wpc[w] = "insert_alerts"
    /\ lock \in {0, w}
    /\ Statement(w, [WorkingCopy(w) EXCEPT
                        !.alerts = InsertRows(@, wjob[w], wjob[w].alerts)],
                 "commit")
    /\ UNCHANGED <<runVars, fileVars, feed, cleaned, wjob, writes, committed>>

\* conn.commit(): the statements of the call become the committed content
Commit(w) ==
    /\ wpc[w] = "commit"
    /\ lock \in {0, w}
    /\ db' = WorkingCopy(w)
    /\ wal' = WorkingCopy(w)
    /\ lock' = 0
    /\ committed' = [committed EXCEPT ![wjob[w].run_id] =
                        [call |-> wjob[w].call, rows |-> wjob[w].rows,
                         alerts |-> wjob[w].alerts, replaced |-> @.call,
                         replaced_rows |-> @.rows]]
    /\ wpc' = [wpc EXCEPT ![w] = "idle"]
    /\ wjob' = [wjob EXCEPT ![w] = NoJob]
    /\ UNCHANGED <<runVars, fileVars, feed, cleaned, writes>>

\* a statement raises, or the process ends, inside the transaction: the
\* connection's context manager, or SQLite, rolls the transaction back
Rollback(w) ==
    /\ wpc[w] \in {"delete_events", "insert_events", "delete_alerts",
                   "insert_alerts", "commit"}
    /\ lock = w
    /\ wal' = db
    /\ lock' = 0
    /\ wpc' = [wpc EXCEPT ![w] = "idle"]
    /\ wjob' = [wjob EXCEPT ![w] = NoJob]
    /\ UNCHANGED <<runVars, fileVars, feed, cleaned, db, writes, committed>>

NextStore ==
    \E w \in Writers :
        \/ CallWrite(w)
        \/ InsertRun(w)
        \/ Busy(w)
        \/ DeleteEvents(w)
        \/ InsertEvents(w)
        \/ DeleteAlerts(w)
        \/ InsertAlerts(w)
        \/ Commit(w)
        \/ Rollback(w)

\* no run is modelled beside the writers
InitStore == InitWith({NoLatest}) /\ inventory = <<>>

\* processes that write their runs to one database
SpecStore == InitStore /\ [][NextStore]_vars

\* ----------------------------------------------------------- write_json
\* path.with_suffix(path.suffix + ".tmp") written in place of the path
TmpPath_Same(path) == path

\* tmp_path = path.with_suffix(path.suffix + ".tmp") (lines 289, 569, 588):
\* one name for every run that writes the path
TmpPath(path) == "latest.tmp"

\* the content of an inode after chunk c is written at position pos: a
\* write past the end leaves a gap
RECURSIVE Holes(_)
Holes(n) == IF n <= 0 THEN <<>> ELSE <<Hole>> \o Holes(n - 1)

WriteAt(content, pos, c) ==
    IF pos <= Len(content)
    THEN [content EXCEPT ![pos] = c]
    ELSE content \o Holes(pos - Len(content) - 1) \o <<c>>

\* tmp_path.open("w"): the file at the temporary path is created, or
\* truncated when it is there, whoever has it open
OpenTmp(p) ==
    /\ pub[p].pc \in {"idle", "failed"}
    /\ publishes < MaxPublishes
    /\ publishes' = publishes + 1
    /\ LET tmp == TmpPath("latest") IN
       IF fs[tmp] = NoInode
       THEN /\ inodes' = Append(inodes, <<>>)
            /\ fs' = [fs EXCEPT ![tmp] = Len(inodes) + 1]
            /\ pub' = [pub EXCEPT ![p] = [pc |-> "write", ino |-> Len(inodes) + 1,
                                          pos |-> 0, call |-> publishes + 1]]
       ELSE /\ inodes' = [inodes EXCEPT ![fs[tmp]] = <<>>]
            /\ fs' = fs
            /\ pub' = [pub EXCEPT ![p] = [pc |-> "write", ino |-> fs[tmp],
                                          pos |-> 0, call |-> publishes + 1]]
    /\ UNCHANGED <<runVars, storeVars, feed, cleaned, reader>>

\* json.dump, or the csv writer, flushes a chunk of the file through the
\* handle; after the last chunk the with block closes the file
WriteChunk(p) ==
    /\ pub[p].pc = "write"
    /\ inodes' = [inodes EXCEPT ![pub[p].ino] =
                      WriteAt(@, pub[p].pos + 1, Chunk(pub[p].call, pub[p].pos + 1))]
    /\ pub' = [pub EXCEPT ![p].pos = @ + 1,
                          ![p].pc = IF pub[p].pos + 1 = Len(Doc(pub[p].call))
                                    THEN "replace" ELSE "write"]
    /\ UNCHANGED <<runVars, storeVars, feed, cleaned, fs, publishes, reader>>

\* os.replace(tmp_path, path): the path now names the inode of the
\* temporary path; FileNotFoundError when the temporary path is gone,
\* which no caller of the "latest" writes catches
Replace(p) ==
    /\ pub[p].pc = "replace"
    /\ LET tmp == TmpPath("latest") IN
       IF fs[tmp] = NoInode
       THEN /\ pub' = [pub EXCEPT ![p] = [NoHandle EXCEPT !.pc = "failed"]]
            /\ fs' = fs
       ELSE /\ pub' = [pub EXCEPT ![p] = NoHandle]
            /\ fs' = [q \in Paths |-> IF q = "latest" THEN fs[tmp]
                                       ELSE IF q = tmp THEN NoInode ELSE fs[q]]
    /\ UNCHANGED <<runVars, storeVars, feed, cleaned, inodes, publishes>>
    /\ UNCHANGED reader

\* a reader opens the "latest" file: its handle stays on the inode the
\* path named at that moment
ReaderOpen ==
    /\ reader.pc \in {"idle", "eof"}
    /\ fs["latest"] # NoInode
    /\ reader' = [pc |-> "reading", ino |-> fs["latest"], pos |-> 0, seen |-> <<>>]
    /\ UNCHANGED <<runVars, storeVars, feed, cleaned, fs, inodes, pub, publishes>>

\* the reader reads the next chunk, or finds the end of the file
ReaderRead ==
    /\ reader.pc = "reading"
    /\ IF reader.pos < Len(inodes[reader.ino])
       THEN reader' = [reader EXCEPT !.pos = @ + 1,
                                     !.seen = Append(@, inodes[reader.ino][reader.pos + 1])]
       ELSE reader' = [reader EXCEPT !.pc = "eof"]
    /\ UNCHANGED <<runVars, storeVars, feed, cleaned, fs, inodes, pub, publishes>>

\* the runs ps publish one "latest" file while a process reads it
NextPublish(ps) ==
    \/ \E p \in ps : OpenTmp(p) \/ WriteChunk(p) \/ Replace(p)
    \/ ReaderOpen
    \/ ReaderRead

\* no scan is modelled beside the file
InitPublish == RunInit({NoLatest}) /\ inventory = <<>> /\ FileInit /\ FeedIdle

\* one run at a time rewrites the file
SpecPublish == InitPublish /\ [][NextPublish({1})]_vars

\* two runs rewrite the file with no lock between them
SpecPublishTwo == InitPublish /\ [][NextPublish(Publishers)]_vars

\* ------------------------------------------------ sanitize_public_feed.py
\* the rows of map_status_latest.json as _run_once writes them (sauron.py
\* lines 897-927): server_up and gateway_up are the strings "true", "false"
\* or "", the status follows the classification
PublishedRows ==
    {[store |-> st, timestamp |-> 1, server_up |-> c.server_up,
      gateway_up |-> c.gateway_up, status |-> c.status,
      status_code |-> c.status_code] :
        st \in {Store7, Store10},
        c \in {[server_up |-> "true", gateway_up |-> "", status |-> "green",
                status_code |-> 0],
               [server_up |-> "false", gateway_up |-> "true", status |-> "yellow",
                status_code |-> 1],
               [server_up |-> "false", gateway_up |-> "false", status |-> "red",
                status_code |-> 2],
               [server_up |-> "false", gateway_up |-> "", status |-> "red",
                status_code |-> 2]}}

\* bool(value) of a Python str: True for every string but the empty one
PyBool(str) == str # ""

\* _build_site_map: the rank of the row's store among the sorted distinct
\* stores of the feed, the n of "SITE-n" (lines 45-47, 61-63)
SiteId(rows, store) ==
    1 + Cardinality({rows[j].store : j \in {k \in 1..Len(rows) :
                                               StrLess(rows[k].store, store)}})

\* _fake_ip(index, role) as its address block and its host number
\* (lines 35-42)
FakeIp(index, role) ==
    [block |-> index % 3,
     host |-> IF role = "gateway" THEN 1 + (index % 50) ELSE 10 + (index % 200)]

\* sanitize_rows (lines 55-100), without the hashed coordinates, city and
\* state and the region fields. enumerate counts from 0; row.get(key,
\* default) yields the row's value, every published row having the key
sanitize_rows(rows) ==
    [n \in 1..Len(rows) |->
        LET row == rows[n]
            i == n - 1
            status_code == IF row.status_code \in {0, 1, 2} THEN row.status_code ELSE 0
            status_lookup == [c \in {0, 1, 2} |->
                                 IF c = 0 THEN "green"
                                 ELSE IF c = 1 THEN "yellow" ELSE "red"]
        IN [timestamp |-> row.timestamp,
            site |-> SiteId(rows, row.store),
            server_ip |-> FakeIp(i, "server"),
            gateway_ip |-> FakeIp(i, "gateway"),
            server_up |-> PyBool(row.server_up),
            gateway_up |-> PyBool(row.gateway_up),
            status |-> status_lookup[status_code],
            status_code |-> status_code,
            Address |-> 100 + (i % 900),
            ZIP |-> 10000 + (i % 89999)]]

\* main of sanitize_public_feed.py: cleaned = sanitize_rows(rows, ...)
\* (lines 128-134)
Sanitize ==
    /\ ~cleaned.done
    /\ cleaned' = [done |-> TRUE, rows |-> sanitize_rows(feed)]
    /\ UNCHANGED <<runVars, storeVars, fileVars, feed>>

\* the sanitizer run on a feed of published rows
InitSanitize ==
    /\ RunInit({NoLatest}) /\ inventory = <<>> /\ FileIdle
    /\ feed \in SeqsUpTo(PublishedRows, MaxFeed)
    /\ cleaned = [done |-> FALSE, rows |-> <<>>]

SpecSanitize == InitSanitize /\ [][Sanitize]_vars

\* ================================================================ claims
\* the (store, ip) keys of a list of targets, triples or rows
Keys(list) == {<<list[i][1], list[i][2]>> : i \in 1..Len(list)}
RowKeys(rows) == {RowKey(rows[i]) : i \in 1..Len(rows)}

\* the outputs of the current run are built
Built == pc \in {"built", "done"}

\* ---------------------------------------------------------------- C1
\* C1 as stated: in every configuration a row is non-UP only if its
\* endpoint failed the initial pass, then the retry pass, then the
\* final-confirm pass
C1_NonUpOnlyAfterThreePasses ==
    Built =>
        \A i \in 1..Len(map_status_rows) :
            map_status_rows[i].server_up = "false" =>
                /\ RowKey(map_status_rows[i]) \in Keys(initial_failures)
                /\ retry_ran
                /\ RowKey(map_status_rows[i]) \in Keys(retry_failures)
                /\ confirm_ran
                /\ RowKey(map_status_rows[i]) \in Keys(confirm_failures)

\* C1 amended: a row is non-UP only if its endpoint failed every
\* primary-address pass the options of the run enable: the initial pass,
\* the retry pass when --retry-pings > 0, the final-confirm pass when
\* --gateway-check is given; every other row is UP
C1_NonUpOnlyAfterEnabledPasses ==
    Built =>
        \A i \in 1..Len(map_status_rows) :
            map_status_rows[i].server_up = "false" =>
                /\ RowKey(map_status_rows[i]) \in Keys(initial_failures)
                /\ args.retry_pings > 0 =>
                       retry_ran /\ RowKey(map_status_rows[i]) \in Keys(retry_failures)
                /\ args.gateway_check =>
                       confirm_ran /\ RowKey(map_status_rows[i]) \in Keys(confirm_failures)

\* a row is non-UP after a retry pass, in a run without --gateway-check
\* and so without final confirm
C1_Witness ==
    /\ Built
    /\ ~args.gateway_check
    /\ retry_ran
    /\ ~confirm_ran
    /\ \E i \in 1..Len(map_status_rows) : map_status_rows[i].server_up = "false"

\* ---------------------------------------------------------------- C2
\* the endpoints that failed the initial and the retry pass and whose
\* every final-confirm ping succeeded
RecoveredAfterConfirm ==
    (Keys(retry_failures) \cap Keys(confirm_successes)) \ Keys(confirm_failures)

\* C2: an endpoint that fails the initial and retry passes and succeeds
\* the final confirm is UP (green, 0) in the snapshot and is in no
\* failure-oriented output: not in the failures list, not in the text
\* report's final timeouts or gateway "server down" lists, not in new_offline
C2_RecoveredInNoFailureOutput ==
    Built =>
        \A key \in RecoveredAfterConfirm :
            /\ \A i \in 1..Len(map_status_rows) :
                   RowKey(map_status_rows[i]) = key =>
                       /\ map_status_rows[i].server_up = "true"
                       /\ map_status_rows[i].status = "green"
                       /\ map_status_rows[i].status_code = 0
            /\ key \notin RowKeys(failures_detail)
            /\ key \notin Keys(TxtReport.final_timeouts)
            /\ TxtReport.gateway_section =>
                   key \notin Keys(TxtReport.gw_online) \cup Keys(TxtReport.gw_offline)
            /\ key \notin RowKeys(new_offlines)

\* ---------------------------------------------------------------- C3
\* C3: a gateway ping is issued only with --gateway-check and only for an
\* endpoint that failed the final-confirm pass; when no endpoint fails the
\* final confirm no gateway ping is issued
C3_GatewayPingsOnlyForConfirmFailures ==
    /\ \A i \in 1..Len(gw_targets) :
           /\ args.gateway_check
           /\ <<gw_targets[i][1], gw_targets[i][2]>> \in Keys(confirm_failures)
    /\ confirm_failures = <<>> => gw_targets = <<>>

\* ---------------------------------------------------------------- C4
Count(list, x) == Cardinality({i \in 1..Len(list) : list[i] = x})

\* the two result lists of a pass over tgts: as many entries as targets,
\* no target in both lists, none missing, none reported more often than
\* it was submitted
PassPartition(tgts, succ, fail) ==
    /\ Len(succ) + Len(fail) = Len(tgts)
    /\ Range(succ) \cap Range(fail) = {}
    /\ \A t \in Range(tgts) \cup Range(succ) \cup Range(fail) :
           Count(succ, t) + Count(fail, t) = Count(tgts, t)

\* C4: after any pass every submitted target is in exactly one of the two
\* result lists: the lengths add up, the lists are disjoint, no target is
\* missing or reported twice
C4_PassPartitionsTargets ==
    /\ (pc \in {"scan", "scanned", "built", "done"} /\ pass # "initial") =>
           PassPartition(Targets(inventory), initial_successes, initial_failures)
    /\ (retry_ran /\ pass # "retry") =>
           PassPartition(initial_failures, retry_successes, retry_failures)
    /\ (confirm_ran /\ pass # "confirm") =>
           PassPartition(pre_confirm_failures, confirm_successes, confirm_failures)

\* ---------------------------------------------------------------- C5
Green == [status |-> "green", status_code |-> 0]
Yellow == [status |-> "yellow", status_code |-> 1]
Red == [status |-> "red", status_code |-> 2]

\* C5: the status is a total function of (server reachable, gateway
\* reachable / unreachable / unknown): reachable gives green 0 whatever the
\* gateway, unreachable with the gateway reachable yellow 1, unreachable
\* with the gateway unreachable or unknown red 2; every snapshot row
\* carries the one status and code its own two fields give
C5_ClassificationTable ==
    /\ Classify(TRUE, "True") = Green
    /\ Classify(TRUE, "False") = Green
    /\ Classify(TRUE, "None") = Green
    /\ Classify(FALSE, "True") = Yellow
    /\ Classify(FALSE, "False") = Red
    /\ Classify(FALSE, "None") = Red
    /\ Built =>
        \A i \in 1..Len(map_status_rows) :
            LET row == map_status_rows[i]
                st == [status |-> row.status, status_code |-> row.status_code]
            IN /\ row.server_up \in {"true", "false"}
               /\ row.gateway_up \in {"true", "false", ""}
               /\ row.server_up = "true" => st = Green
               /\ (row.server_up = "false" /\ row.gateway_up = "true") => st = Yellow
               /\ (row.server_up = "false" /\ row.gateway_up # "true") => st = Red

\* one snapshot with a yellow row and with a green row whose gateway was
\* pinged and answered
C5_Witness ==
    /\ Built
    /\ \E i \in 1..Len(map_status_rows) : map_status_rows[i].status = "yellow"
    /\ \E i \in 1..Len(map_status_rows) :
           /\ map_status_rows[i].status = "green"
           /\ RowKey(map_status_rows[i]) \in Keys(gw_online)

\* ---------------------------------------------------------------- C6
\* the secondary address of an inventory row: the configured one when it
\* is not empty, else the primary IPv4 address with the last octet 1
ExpectedGateway(rec) ==
    IF rec.Gateway # EmptyStr THEN rec.Gateway
    ELSE IF IpVersion(rec.IPAddress) = 4
         THEN <<rec.IPAddress[1], rec.IPAddress[2], rec.IPAddress[3], 1>>
         ELSE EmptyStr

\* gateway checking is off, or the endpoint of the inventory row has no
\* gateway address
NoGatewayPingFor(rec) ==
    \/ ~args.gateway_check
    \/ ExpectedGateway(rec) = EmptyStr

\* C6: for a row whose server is unreachable, gateway_up is unknown ("" in
\* the row, NULL in the store) exactly when no gateway ping was made for
\* the endpoint, which is when --gateway-check is off or no gateway address
\* can be derived; such a row is red, and the unknown value is not the
\* value of a gateway ping that failed
C6_UnknownIffNotPinged ==
    /\ SqlGatewayUp("") # SqlGatewayUp("false")
    /\ GatewayUpStr("None") # GatewayUpStr("False")
    /\ Built =>
        \A i \in 1..Len(map_status_rows) :
            LET row == map_status_rows[i] IN
            row.server_up = "false" =>
                /\ row.gateway_up = "" <=> RowKey(row) \notin Keys(gw_targets)
                /\ SqlGatewayUp(row.gateway_up) = "NULL"
                       <=> RowKey(row) \notin Keys(gw_targets)
                /\ RowKey(row) \notin Keys(gw_targets) <=> NoGatewayPingFor(inventory[i])
                /\ row.gateway_up = "" => (row.status = "red" /\ row.status_code = 2)

\* ---------------------------------------------------------------- C7
\* C7: for each endpoint handed to the gateway pass the address pinged is
\* its configured secondary address when not empty, else the derived one;
\* an endpoint with neither is skipped, without ping and in neither list
C7_GatewayAddressOfEndpoint ==
    (confirm_ran /\ pass # "confirm") =>
        \A i \in 1..Len(inventory) :
            LET rec == inventory[i]
                key == <<rec.StoreNumber, rec.IPAddress>>
            IN key \in Keys(pre_confirm_failures) =>
                IF ExpectedGateway(rec) = EmptyStr
                THEN /\ key \notin Keys(gw_targets)
                     /\ key \notin Keys(gw_online) \cup Keys(gw_offline)
                ELSE \A j \in 1..Len(gw_targets) :
                         <<gw_targets[j][1], gw_targets[j][2]>> = key =>
                             gw_targets[j][3] = ExpectedGateway(rec)

\* ---------------------------------------------------------------- C8
PriorRows(key) ==
    {latest.map_status[j] : j \in {k \in 1..Len(latest.map_status) :
        latest.exists /\ RowKey(latest.map_status[k]) = key}}

RowIndices(P(_)) == {i \in 1..Len(map_status_rows) : P(map_status_rows[i])}

WentDown(row) ==
    /\ row.server_up = "false"
    /\ \E p \in PriorRows(RowKey(row)) : p.server_up = "true"

CameUp(row) ==
    /\ row.server_up = "true"
    /\ \E p \in PriorRows(RowKey(row)) : p.server_up = "false"

\* C8: new_offline is exactly the current rows whose key has a prior row
\* with server_up true and that are now down; back_online exactly those
\* whose prior row was down and that are now up, each with the prior row's
\* timestamp as last_seen_offline_at; an endpoint without a prior row is
\* in neither list
C8_TransitionLists ==
    pc = "built" =>
        /\ Len(new_offlines) = Cardinality(RowIndices(WentDown))
        /\ Len(back_online) = Cardinality(RowIndices(CameUp))
        /\ \A i \in 1..Len(map_status_rows) :
               LET row == map_status_rows[i] IN
               /\ WentDown(row) <=> row \in Range(new_offlines)
               /\ CameUp(row) <=>
                      \E b \in Range(back_online) :
                          /\ RowKey(b) = RowKey(row)
                          /\ b.server_up = "true"
                          /\ \E p \in PriorRows(RowKey(row)) :
                                 b.last_seen_offline_at = p.timestamp
               /\ PriorRows(RowKey(row)) = {} =>
                      /\ RowKey(row) \notin RowKeys(new_offlines)
                      /\ RowKey(row) \notin RowKeys(back_online)
        /\ \A n \in Range(new_offlines) : n \in Range(map_status_rows)
        /\ \A b \in Range(back_online) : RowKey(b) \in RowKeys(map_status_rows)

\* a run that finds one endpoint newly offline and, beside it, an
\* unreachable endpoint the prior snapshot has no row for
C8_Witness ==
    /\ pc = "built"
    /\ new_offlines # <<>>
    /\ \E i \in 1..Len(map_status_rows) :
           /\ map_status_rows[i].server_up = "false"
           /\ PriorRows(RowKey(map_status_rows[i])) = {}

\* ---------------------------------------------------------------- C9
\* C9, at the third of three consecutive runs on one inventory: an endpoint
\* that was UP in the first run (the snapshot the second run diffed
\* against), down in the second and that succeeds in the third is in the
\* second run's new_offline exactly once and in the third run's
\* back_online with the second run's timestamp as last_seen_offline_at
C9_OfflineOnceThenBackOnline ==
    (pc = "built" /\ run_no >= 3 /\ prev.exists /\ latest.exists) =>
        \A key \in RowKeys(map_status_rows) :
            ( /\ key \in prev.up_before
              /\ \E p \in PriorRows(key) : p.server_up = "false"
              /\ key \notin Keys(final_failures) )
            => /\ Count(prev.new_offlines, key) = 1
               /\ \E b \in Range(back_online) :
                      /\ RowKey(b) = key
                      /\ b.last_seen_offline_at = latest.written_by

\* ---------------------------------------------------------------- C10
\* C10: when every ping of the previous run succeeded and every ping of
\* this run on the same inventory succeeds, this run has no new_offline,
\* no back_online and no alert record
C10_NoTransitionsWhenAllSucceedTwice ==
    (Built /\ prev.exists /\ prev.all_succeeded /\ initial_failures = <<>>) =>
        /\ new_offlines = <<>>
        /\ back_online = <<>>
        /\ alert_rows = <<>>
        /\ summary.new_offline_count = 0
        /\ summary.back_online_count = 0

\* the second of two runs in which every ping succeeded, on an inventory
\* of two endpoints
C10_Witness ==
    /\ pc = "built"
    /\ prev.exists
    /\ prev.all_succeeded
    /\ initial_failures = <<>>
    /\ Len(map_status_rows) = 2
    /\ \A i \in 1..Len(map_status_rows) : PriorRows(RowKey(map_status_rows[i])) # {}

\* ---------------------------------------------------------------- C11
\* the prior snapshot file is a JSON list whose elements are all row objects
IsListOfRowObjects ==
    /\ latest.exists
    /\ latest.json = "list"
    /\ \A i \in 1..Len(latest.map_status) : IsUsableRow(latest.map_status[i])

\* C11 as stated: when the prior snapshot file is missing, not valid JSON
\* or not a list of row objects, the run goes on and has no new_offline, no
\* back_online and no alert record
C11_NoPriorDataUnlessListOfRows ==
    /\ [][(pc = "scanned" /\ ~IsListOfRowObjects /\ pc' # pc) => pc' = "built"]_vars
    /\ []((pc = "built" /\ ~IsListOfRowObjects) =>
             /\ new_offlines = <<>>
             /\ back_online = <<>>
             /\ alert_rows = <<>>)

\* the row objects of the prior snapshot file with the key
UsablePriorRows(key) ==
    {latest.map_status[j] : j \in {k \in 1..Len(latest.map_status) :
        /\ latest.exists
        /\ latest.json = "list"
        /\ IsUsableRow(latest.map_status[k])
        /\ RowKey(latest.map_status[k]) = key}}

\* the prior snapshot file gives no row at all: it is missing, not valid
\* JSON, not a list, or a list without a row object
NoUsablePriorRow ==
    \/ ~latest.exists
    \/ latest.json # "list"
    \/ \A i \in 1..Len(latest.map_status) : ~IsUsableRow(latest.map_status[i])

\* C11 amended: when the prior snapshot file is missing, not valid JSON,
\* not a list, or a list without a row object, the run goes on and has no
\* new_offline, no back_online and no alert record; in a list the elements
\* that are not row objects are skipped and its row objects are diffed as
\* those of an undamaged file
C11_NoPriorDataWithoutUsableRow ==
    /\ [][(pc = "scanned" /\ NoUsablePriorRow /\ pc' # pc) => pc' = "built"]_vars
    /\ []((pc = "built" /\ NoUsablePriorRow) =>
             /\ new_offlines = <<>>
             /\ back_online = <<>>
             /\ alert_rows = <<>>
             /\ summary.new_offline_count = 0
             /\ summary.back_online_count = 0)
    /\ []((pc = "built" /\ ~NoUsablePriorRow) =>
             \A i \in 1..Len(map_status_rows) :
                 LET row == map_status_rows[i] IN
                 /\ row \in Range(new_offlines) <=>
                        /\ row.server_up = "false"
                        /\ \E p \in UsablePriorRows(RowKey(row)) : p.server_up = "true"
                 /\ RowKey(row) \in RowKeys(back_online) <=>
                        /\ row.server_up = "true"
                        /\ \E p \in UsablePriorRows(RowKey(row)) : p.server_up = "false")

\* a run over a prior snapshot file that is not valid JSON finds an
\* endpoint unreachable and reports no transition
C11_Witness ==
    /\ pc = "built"
    /\ latest.exists
    /\ latest.json = "invalid"
    /\ final_failures # <<>>
    /\ new_offlines = <<>>
    /\ alert_rows = <<>>

\* ---------------------------------------------------------------- C12
\* the run has left the alert code: by going on, or by an exception
AlertsOver == pc \in {"built", "done", "crashed"}

AlertCount(type) ==
    Cardinality({i \in 1..Len(alert_rows) : alert_rows[i].alert_type = type})

\* C12: a run has exactly one alert record for each transition list that
\* is not empty and none for an empty one; sent is true exactly when a
\* webhook is configured, delivery_ok is null exactly when no delivery was
\* attempted
C12_OneAlertRecordPerTransitionList ==
    AlertsOver =>
        /\ AlertCount("offline") = (IF new_offlines # <<>> THEN 1 ELSE 0)
        /\ AlertCount("back_online") = (IF back_online # <<>> THEN 1 ELSE 0)
        /\ Len(alert_rows) = AlertCount("offline") + AlertCount("back_online")
        /\ \A i \in 1..Len(alert_rows) :
               /\ alert_rows[i].sent <=> teams_webhook \in {"url", "noscheme"}
               /\ alert_rows[i].delivery_ok = "None" <=> teams_webhook = ""

\* ---------------------------------------------------------------- C13
\* C13: a failed alert delivery (transport error, HTTP error status,
\* timeout, unusable target URL) never aborts the run; the run goes on to
\* persist, and the alert record is in the historical store with its
\* message, delivery_ok false and the error detail
C13_FailedDeliveryNeverAborts ==
    /\ pc # "crashed"
    /\ pc = "done" =>
           \A i \in 1..Len(alert_rows) :
               (alert_rows[i].sent /\ alert_rows[i].delivery_ok # "True") =>
                   /\ SqliteAlerts[i].delivery_ok = "0"
                   /\ SqliteAlerts[i].delivery_detail \in {"HTTP code body", "str(ex)"}
                   /\ SqliteAlerts[i].message = alert_rows[i].message

\* ---------------------------------------------------------------- C14
\* the collected futures of the pass in flight whose probe raised, for
\* target t
RaisedFor(t) == Cardinality({i \in raised : targets[i] = t})

\* C14: while a pass is in flight, every target whose probe raised is in
\* the failure list and every collected probe is reported in one of the
\* two lists; a pass ends only when all its probes are collected, and then
\* the run goes on with the next pass or the outputs: no probe error ends
\* the pass or the run
C14_ProbeErrorIsFailure ==
    /\ [](pass # "none" =>
             /\ pc = "scan"
             /\ raised \cap pending = {}
             /\ \A i \in raised : RaisedFor(targets[i]) <= Count(failures, targets[i])
             /\ Len(successes) + Len(failures) = Len(targets) - Cardinality(pending))
    /\ [][(pass # "none" /\ pass' # pass) =>
             /\ pending = {}
             /\ pc' \in {"scan", "scanned"}]_vars

\* every probe of a pass over two targets is collected: one raised, the
\* other answered
C14_Witness ==
    /\ pass = "initial"
    /\ Len(targets) = 2
    /\ pending = {}
    /\ Cardinality(raised) = 1
    /\ Len(successes) = 1
    /\ Len(failures) = 1

\* ---------------------------------------------------------------- C15
\* a pass over tgts has returned: each of its probes is in a result list
PassComplete(tgts, succ, fail) == Len(succ) + Len(fail) = Len(tgts)

\* the primary-address pass before the final confirm has returned, and
\* these are its failures
FailuresBeforeConfirm ==
    IF retry_ran THEN retry_failures ELSE initial_failures

\* C15: while the probes of a pass are in flight every earlier pass has
\* returned its complete lists, the targets of the pass are computed from
\* the complete failure list of the pass before it (retry from initial,
\* final confirm from retry, gateway from final confirm), and only one pass
\* has probes in flight
C15_PassesInSequence ==
    /\ pass \in {"none", "initial", "retry", "confirm", "gateway"}
    /\ pass = "none" => pending = {}
    /\ pass = "initial" => ~retry_ran /\ ~confirm_ran /\ initial_failures = <<>>
    /\ pass = "retry" =>
           /\ PassComplete(Targets(inventory), initial_successes, initial_failures)
           /\ targets = initial_failures
           /\ ~confirm_ran
    /\ pass = "confirm" =>
           /\ PassComplete(Targets(inventory), initial_successes, initial_failures)
           /\ retry_ran => PassComplete(initial_failures, retry_successes, retry_failures)
           /\ targets = FailuresBeforeConfirm
    /\ pass = "gateway" =>
           /\ PassComplete(pre_confirm_failures, confirm_successes, confirm_failures)
           /\ targets = GwTargets(inventory, confirm_failures)

\* ---------------------------------------------------------------- C16
\* the place of an endpoint in the inventory
FirstIndex(key) ==
    CHOOSE i \in 1..Len(inventory) :
        /\ Targets(inventory)[i] = key
        /\ \A j \in 1..(i - 1) : Targets(inventory)[j] # key

RECURSIVE InsertByIndex(_, _)
InsertByIndex(x, sorted) ==
    IF sorted = <<>> THEN <<x>>
    ELSE IF FirstIndex(<<x[1], x[2]>>) < FirstIndex(<<Head(sorted)[1], Head(sorted)[2]>>)
         THEN <<x>> \o sorted
         ELSE <<Head(sorted)>> \o InsertByIndex(x, Tail(sorted))

\* the items of a result list in the order their probes were submitted
RECURSIVE SubmissionOrder(_)
SubmissionOrder(list) ==
    IF list = <<>> THEN <<>>
    ELSE InsertByIndex(list[Len(list)], SubmissionOrder(SubSeq(list, 1, Len(list) - 1)))

\* the list a pass returns when its probes complete in submission order
InSubmissionOrder(list) == SortByStore(SubmissionOrder(list))

\* C16: the published lists do not depend on the order in which the probes
\* complete: the failures list and the two gateway lists are the lists the
\* run yields when the probes complete in submission order, the snapshot
\* rows follow the inventory, the transition lists follow the snapshot rows
C16_OrderIndependentOfCompletion ==
    Built =>
        /\ final_failures = InSubmissionOrder(final_failures)
        /\ [i \in 1..Len(failures_detail) |-> RowKey(failures_detail[i])] = final_failures
        /\ gw_online = InSubmissionOrder(gw_online)
        /\ gw_offline = InSubmissionOrder(gw_offline)
        /\ [i \in 1..Len(map_status_rows) |-> RowKey(map_status_rows[i])]
               = Targets(inventory)
        /\ new_offlines
               = SelectSeq(map_status_rows, LAMBDA r : r \in Range(new_offlines))
        /\ [i \in 1..Len(back_online) |-> RowKey(back_online[i])]
               = SelectSeq(Targets(inventory), LAMBDA k : k \in RowKeys(back_online))

\* ---------------------------------------------------------------- C17
\* the rows are in ascending order of the sort key of their store
AscendingByStore(rows) ==
    \A i \in 1..Len(rows) : \A j \in (i + 1)..Len(rows) :
        ~KeyLess(store_sort_key(rows[j].store), store_sort_key(rows[i].store))

\* C17: the snapshot rows, the failures list and the two transition lists
\* are each in ascending order of the sort key (numeric prefix of the
\* store, then the store string), whatever the order of the inventory
C17_PublishedListsSorted ==
    Built =>
        /\ AscendingByStore(map_status_rows)
        /\ AscendingByStore(failures_detail)
        /\ AscendingByStore(new_offlines)
        /\ AscendingByStore(back_online)

\* ---------------------------------------------------------------- C18
\* the snapshot rows of an endpoint
RowsOf(key) == {i \in 1..Len(map_status_rows) : RowKey(map_status_rows[i]) = key}

\* C18: the snapshot has exactly one row for each distinct endpoint
\* (store, address) of the usable inventory and no other row
C18_OneRowPerEndpoint ==
    Built =>
        /\ RowKeys(map_status_rows) = Range(Targets(inventory))
        /\ \A key \in Range(Targets(inventory)) : Cardinality(RowsOf(key)) = 1

\* ---------------------------------------------------------------- C19
\* what a reader of the database finds under a run id
RunsOf(id) == {r \in db.runs : r.run_id = id}
EventsOf(id) == SelectSeq(db.events, LAMBDA r : r.run_id = id)
AlertsOf(id) == SelectSeq(db.alerts, LAMBDA r : r.run_id = id)

\* the n rows the call inserts for the run id
RowsOfCall(id, call, n) == [i \in 1..n |-> [run_id |-> id, call |-> call, idx |-> i]]

\* C19: after any sequence of writes a run id that was written has exactly
\* one summary row, and its snapshot rows and alert records are exactly
\* those of the most recent write with that id: no duplicate, no row of
\* an earlier write; a run id never written has no row
C19_StoreHoldsLastWrite ==
    \A id \in RunIds :
        IF committed[id].call = 0
        THEN RunsOf(id) = {} /\ EventsOf(id) = <<>> /\ AlertsOf(id) = <<>>
        ELSE /\ Cardinality(RunsOf(id)) = 1
             /\ \A r \in RunsOf(id) : r.call = committed[id].call
             /\ EventsOf(id) = RowsOfCall(id, committed[id].call, committed[id].rows)
             /\ AlertsOf(id) = RowsOfCall(id, committed[id].call, committed[id].alerts)

\* a run id was written with two snapshot rows and then again with none
C19_Witness ==
    \E id \in RunIds :
        /\ committed[id].replaced # 0
        /\ committed[id].replaced_rows = 2
        /\ committed[id].rows = 0
        /\ \A w \in Writers : wpc[w] = "idle"

\* ---------------------------------------------------------------- C20
\* the content under the run id is the whole content of one call: one
\* summary row, and exactly the snapshot rows and alert records its counts
\* announce, all written by the call that wrote the summary row
WholeOfOneCall(id) ==
    /\ Cardinality(RunsOf(id)) <= 1
    /\ RunsOf(id) = {} => (EventsOf(id) = <<>> /\ AlertsOf(id) = <<>>)
    /\ \A r \in RunsOf(id) :
           /\ EventsOf(id) = RowsOfCall(id, r.call, r.total_stores)
           /\ AlertsOf(id) = RowsOfCall(id, r.call, r.alert_count)

\* two writers are inside write_run_to_sqlite with the same run id
ConcurrentWrites(id) ==
    \E w1 \in Writers : \E w2 \in Writers \ {w1} :
        /\ wpc[w1] # "idle" /\ wjob[w1].run_id = id
        /\ wpc[w2] # "idle" /\ wjob[w2].run_id = id

\* C20: while and after two runs with one run id write concurrently, a
\* reader finds under the id the whole content of exactly one call, the one
\* that committed last: no mixture of two calls, no duplicate row, no
\* summary of one call with rows of another
C20_ConcurrentWritesSerialize ==
    \A id \in RunIds :
        /\ WholeOfOneCall(id)
        /\ \A r \in RunsOf(id) : r.call = committed[id].call

\* two calls with one run id overlap: one holds the write lock with its
\* summary row and snapshot rows written but not committed, the other
\* waits, and the database already holds an earlier call's content
C20_Witness ==
    \E id \in RunIds :
        /\ ConcurrentWrites(id)
        /\ committed[id].call # 0
        /\ \E w \in Writers : /\ lock = w
                              /\ wjob[w].run_id = id
                              /\ wjob[w].rows = 2
                              /\ wpc[w] \in {"delete_alerts", "insert_alerts", "commit"}
                              /\ wal # db

\* ---------------------------------------------------------------- C21
\* the summary row, snapshot rows and alert records of database content d
\* under a run id
StoredUnder(d, id) ==
    [runs |-> {r \in d.runs : r.run_id = id},
     events |-> SelectSeq(d.events, LAMBDA r : r.run_id = id),
     alerts |-> SelectSeq(d.alerts, LAMBDA r : r.run_id = id)]

\* C21: a step of the writers changes what the database holds under a run
\* id only when it is the commit of a call for that very id: the rows of
\* every other run id stay as they are
C21_OtherRunsUntouched ==
    [][\A id \in RunIds :
          StoredUnder(db', id) # StoredUnder(db, id) =>
              \E w \in Writers : /\ wpc[w] = "commit"
                                  /\ wjob[w].run_id = id
                                  /\ wpc'[w] = "idle"
                                  /\ committed'[id].call = wjob[w].call]_vars

\* one run id was written with snapshot rows and an alert record, the
\* other run id was written after it, and the rows of the first are there
C21_Witness ==
    \E id \in RunIds : \E other \in RunIds \ {id} :
        /\ committed[id].call # 0
        /\ committed[id].rows = 2
        /\ committed[id].alerts = 1
        /\ committed[other].call > committed[id].call
        /\ Len(StoredUnder(db, id).events) = 2
        /\ Len(StoredUnder(db, id).alerts) = 1

\* ---------------------------------------------------------------- C22
\* the complete contents a "latest" file can have: what one call wrote
WholeDocs == {Doc(c) : c \in 0..MaxPublishes}

IsPrefix(a, b) == Len(a) <= Len(b) /\ SubSeq(b, 1, Len(a)) = a

\* what a process reading the file gets is a whole content
ReadIsWhole ==
    /\ reader.pc = "reading" => \E d \in WholeDocs : IsPrefix(reader.seen, d)
    /\ reader.pc = "eof" => reader.seen \in WholeDocs

\* C22: while one run rewrites a "latest" file, the path always names a
\* complete content, and a reader that opened the file reads, from the
\* first chunk to the end, the complete content of one call: the previous
\* one or the new one, never a partly written file
C22_ReaderSeesWholeFile ==
    /\ fs["latest"] # NoInode => inodes[fs["latest"]] \in WholeDocs
    /\ ReadIsWhole

\* a reader opened the file of the earlier run, the run replaced the
\* file while it was read, and the reader read the earlier content whole
C22_Witness ==
    /\ reader.pc = "eof"
    /\ reader.seen = Doc(0)
    /\ fs["latest"] # reader.ino
    /\ inodes[fs["latest"]] = Doc(1)

\* ---------------------------------------------------------------- C23
\* C23: while two runs rewrite the same "latest" file with no lock between
\* them, the path always names the complete content of one run, a reader
\* reads the complete content of one run, and no run's write fails
C23_ConcurrentPublishersWhole ==
    /\ \A p \in Publishers : pub[p].pc # "failed"
    /\ fs["latest"] # NoInode =>
           \E c \in 0..MaxPublishes : inodes[fs["latest"]] = Doc(c)
    /\ reader.pc = "eof" => \E c \in 0..MaxPublishes : reader.seen = Doc(c)

\* ---------------------------------------------------------------- C24
\* C24: after a run completes, every "latest" artifact of the output
\* directory is that run's: the summary and the map status rows carry the
\* run, and failures_latest.csv, when it is there, was written by the run
C24_LatestArtifactsOfThisRun ==
    pc = "done" =>
        /\ latest.exists
        /\ latest.written_by = run_no
        /\ \A i \in 1..Len(latest.map_status) : latest.map_status[i].timestamp = run_no
        /\ latest.failures_csv # Absent => latest.failures_csv = run_no

\* ---------------------------------------------------------------- C25
\* the sinks that are files: the per-run files, the "latest" files, the
\* publish directory and the ZIP of the per-run folder
FileSinks == {"run_files", "latest", "publish", "zip"}

\* C25: when the write to a file sink raised, the run has logged a warning
\* for it and has completed, and every other sink that was asked for,
\* the historical store among them, was reached
C25_FileSinkFailureIsWarning ==
    \A sink \in FileSinks :
        sinks[sink] = "raised" =>
            /\ pc = "done"
            /\ sink \in sinks.warnings
            /\ \A other \in Range(SinkOrder) : sinks[other] # "none"

\* ---------------------------------------------------------------- C26
\* the write to the historical store raised and no write to a file did
OnlyStoreFailed ==
    /\ sinks.sqlite = "raised"
    /\ \A sink \in FileSinks : sinks[sink] # "raised"

\* C26: when the write to the historical store raised and every file write
\* went through, the run has logged a warning for the store and has
\* completed: the "latest" files are this run's, the publish directory
\* is written, and the console recap is printed unless --quiet was given
C26_StoreFailureIsWarning ==
    OnlyStoreFailed =>
        /\ pc = "done"
        /\ "sqlite" \in sinks.warnings
        /\ sinks.latest = "written"
        /\ latest.written_by = run_no
        /\ \A i \in 1..Len(latest.map_status) : latest.map_status[i].timestamp = run_no
        /\ sinks.publish = "written"
        /\ sinks.zip \in {"off", "written"}
        /\ sinks.recap \/ sinks.quiet

\* the store write of a run raised, the run went on to publish, made the
\* ZIP and printed its recap
C26_Witness ==
    /\ pc = "done"
    /\ sinks.sqlite = "raised"
    /\ sinks.warnings = {"sqlite"}
    /\ sinks.publish = "written"
    /\ sinks.zip = "written"
    /\ sinks.recap

\* ---------------------------------------------------------------- C27
\* C27: a run that ends on a fatal input error has issued no probe and
\* has made or changed nothing: no output directory, no per-run file, no
\* "latest" file, no row of the historical store, no publish file
C27_FatalInputWritesNothing ==
    /\ [](pc = "exit" =>
             /\ exit_code # NoExit
             /\ pass = "none" /\ targets = <<>> /\ pending = {}
             /\ initial_successes = <<>> /\ initial_failures = <<>>
             /\ sinks = NoSinks)
    /\ [][pc' = "exit" => latest' = latest /\ db' = db /\ fs' = fs]_vars

\* the second run on an output directory finds no stores CSV, or one
\* without the headers
C27_Witness ==
    /\ pc = "exit"
    /\ exit_code = 1
    /\ run_no = 2
    /\ latest.exists
    /\ latest.written_by = 1

\* ---------------------------------------------------------------- C28
\* C28: a run on an inventory with zero usable rows ends with an exit
\* code that is not zero
C28_ZeroRowsExitNonZero ==
    (pc = "exit" /\ Len(inventory) = 0) => exit_code > 0

\* ---------------------------------------------------------------- C29
\* the initial pass is over and every primary address answered
AllAnsweredInitially ==
    /\ pc \in {"scanned", "built", "done", "crashed"}
    /\ inventory # <<>>
    /\ initial_failures = <<>>
    /\ Len(initial_successes) = Len(inventory)

\* no retry, final confirm or gateway probe was issued
NoLaterPass ==
    /\ ~retry_ran /\ retry_successes = <<>> /\ retry_failures = <<>>
    /\ ~confirm_ran /\ confirm_successes = <<>> /\ confirm_failures = <<>>
    /\ gw_targets = <<>> /\ gw_online = <<>> /\ gw_offline = <<>>

RunEnded == pc \in {"done", "exit", "crashed"}

\* C30: in loop mode, after every run that ends, whatever its outcome,
\* another run is started (the model stops at MaxRuns runs)
C30_LoopStartsNextRun ==
    \A n \in 1..(MaxRuns - 1) : (run_no = n /\ RunEnded) ~> (run_no = n + 1)

\* ---------------------------------------------------------------- C31
\* the collected futures of the pass in flight whose command hung, for
\* target t
HungFor(t) == Cardinality({i \in hung \ pending : targets[i] = t})

Passes == {"initial", "retry", "confirm", "gateway"}

\* C31: every pass terminates and so does the run: a probe whose ping
\* command hangs is collected at its timeout and its target is in the
\* failures of the pass, never in its successes alone
C31_HungProbeIsFailure ==
    /\ [](pass # "none" =>
             \A i \in hung \ pending :
                 HungFor(targets[i]) + RaisedFor(targets[i])
                     <= Count(failures, targets[i]))
    /\ \A p \in Passes : (pass = p /\ pending # {}) ~> (pending = {})
    /\ (pc = "scan") ~> (pc \in {"done", "crashed"})

\* a pass over two targets is complete: the ping command of one hung and
\* was collected as a failure, the other answered
C31_Witness ==
    /\ pass = "initial"
    /\ Len(targets) = 2
    /\ pending = {}
    /\ Cardinality(hung) = 1
    /\ Len(failures) = 1
    /\ Len(successes) = 1
    /\ \A i \in hung : failures[1] = targets[i]

\* ---------------------------------------------------------------- C32
\* the endpoints whose primary address succeeded in a pass that returned
Succeeded ==
    Keys(initial_successes) \cup Keys(retry_successes) \cup Keys(confirm_successes)

\* C32: the retry pass probes only endpoints of the initial failures, the
\* final confirm only endpoints of the failures of the pass before it, and
\* an endpoint whose primary address succeeded in a pass is in no later
\* pass's targets and in no later failure list
C32_TargetsShrink ==
    /\ pass = "retry" =>
           /\ Keys(targets) \subseteq Keys(initial_failures)
           /\ Keys(targets) \cap Keys(initial_successes) = {}
    /\ pass = "confirm" =>
           /\ Keys(targets) \subseteq Keys(FailuresBeforeConfirm)
           /\ Keys(targets) \subseteq Keys(initial_failures)
           /\ Keys(targets) \cap Succeeded = {}
    /\ pc \in {"scan", "scanned", "built", "done"} =>
           /\ Keys(retry_failures) \cap Keys(initial_successes) = {}
           /\ Keys(confirm_failures) \cap
                  (Keys(initial_successes) \cup Keys(retry_successes)) = {}
           /\ Keys(final_failures) \cap Succeeded = {}

\* ---------------------------------------------------------------- C33
\* C33: in the summary of every run, with or without the retry pass and
\* with or without --gateway-check, total_stores = initial_responding +
\* initial_timeouts and initial_timeouts = recovered_after_retry +
\* recovered_after_final_confirm + final_timeouts
C33_SummaryAddsUp ==
    Built =>
        /\ summary.total_stores =
               summary.initial_responding + summary.initial_timeouts
        /\ summary.initial_timeouts =
               summary.recovered_after_retry
                   + summary.recovered_after_final_confirm
                   + summary.final_timeouts

\* the summary of a run over two rows that both failed the initial pass:
\* one recovered in the retry, the other in the final confirm
C33_Witness ==
    /\ Built
    /\ summary.total_stores = 2
    /\ summary.initial_timeouts = 2
    /\ summary.recovered_after_retry = 1
    /\ summary.recovered_after_final_confirm = 1
    /\ summary.final_timeouts = 0

\* the summary of a run without the retry pass and without --gateway-check
\* whose only row failed
C33_WitnessNoRetry ==
    /\ Built
    /\ args.retry_pings = 0
    /\ ~args.gateway_check
    /\ summary.final_timeouts = 1

\* ---------------------------------------------------------------- C34
\* the snapshot rows marked down
DownRows == {i \in 1..Len(map_status_rows) : map_status_rows[i].server_up = "false"}

\* C34: in the outputs of a run the snapshot has as many rows with
\* server_up = false as the summary's final_timeouts, their endpoints are
\* the endpoints of the failures list, and no row of an endpoint whose
\* primary address succeeded in a pass is marked down
C34_DownRowsAreFinalFailures ==
    Built =>
        /\ Cardinality(DownRows) = summary.final_timeouts
        /\ Cardinality(DownRows) = Len(failures_detail)
        /\ {RowKey(map_status_rows[i]) : i \in DownRows} = Keys(final_failures)
        /\ {RowKey(map_status_rows[i]) : i \in DownRows} = RowKeys(failures_detail)
        /\ \A i \in DownRows : RowKey(map_status_rows[i]) \notin Succeeded

\* ---------------------------------------------------------------- C35
\* C35: every endpoint in the gateway lists the summary counts and the
\* text report prints is non-UP in the snapshot of the run, and the two
\* gateway counts together are at most final_timeouts
C35_GatewayCountsWithinFinalTimeouts ==
    Built =>
        /\ \A i \in 1..Len(TxtReport.gw_online) :
               <<TxtReport.gw_online[i][1], TxtReport.gw_online[i][2]>>
                   \in {RowKey(map_status_rows[j]) : j \in DownRows}
        /\ \A i \in 1..Len(TxtReport.gw_offline) :
               <<TxtReport.gw_offline[i][1], TxtReport.gw_offline[i][2]>>
                   \in {RowKey(map_status_rows[j]) : j \in DownRows}
        /\ summary.gateway_online_count + summary.gateway_offline_count
               <= summary.final_timeouts

\* ---------------------------------------------------------------- C36
\* the endpoints a snapshot has a row with server_up = "true" for
UpKeys(rows) == {RowKey(rows[i]) : i \in {j \in 1..Len(rows) : rows[j].server_up = "true"}}
DownKeys(rows) == {RowKey(rows[i]) : i \in {j \in 1..Len(rows) : rows[j].server_up = "false"}}

\* C36: the step of a run that reads the prior snapshot and diffs against
\* it writes no "latest" file, the "latest" files change only in the output
\* stage after it, to the rows of the run, and so run k+1 of a sequence of
\* completed runs diffs against the snapshot run k published: its
\* transitions are the differences to that snapshot
C36_DiffAgainstPreviousRun ==
    /\ [][pc = "scanned" => latest' = latest]_vars
    /\ [][latest' # latest =>
             /\ pc = "built"
             /\ latest'.written_by = run_no
             /\ latest'.map_status =
                    [i \in 1..Len(map_status_rows) |-> LatestRow(map_status_rows[i])]]_vars
    /\ [](pc = "built" /\ run_no > 1 =>
             /\ latest.exists
             /\ latest.written_by = run_no - 1
             /\ \A i \in 1..Len(latest.map_status) :
                    latest.map_status[i].timestamp = run_no - 1
             /\ up_before = UpKeys(latest.map_status)
             /\ RowKeys(new_offlines) =
                    DownKeys(map_status_rows) \cap UpKeys(latest.map_status)
             /\ RowKeys(back_online) =
                    UpKeys(map_status_rows) \cap DownKeys(latest.map_status))

\* the second run of a sequence has found an endpoint down that the
\* snapshot of the first run has up
C36_Witness ==
    /\ pc = "built"
    /\ run_no = 2
    /\ latest.written_by = 1
    /\ new_offlines # <<>>
    /\ RowKeys(new_offlines) \subseteq UpKeys(latest.map_status)

\* ---------------------------------------------------------------- C37
\* the run has an alert record of this type
HasAlert(type) == \E i \in 1..Len(alert_rows) : alert_rows[i].alert_type = type

\* C37: in a run that follows a completed run on the same inventory, an
\* endpoint that was down in the snapshot of the run before and is down now
\* is not in new_offline, even when the run before reported it, and there
\* is an offline alert only when some endpoint went from up to down; an
\* endpoint that was up before and is up now is not in back_online, and
\* there is a back-online alert only when some endpoint came up
C37_TransitionReportedOnce ==
    (pc = "built" /\ run_no > 1 /\ prev.exists) =>
        /\ latest.written_by = run_no - 1
        /\ \A key \in DownKeys(latest.map_status) \cap DownKeys(map_status_rows) :
               key \notin RowKeys(new_offlines)
        /\ \A key \in Keys(prev.new_offlines) \cap DownKeys(map_status_rows) :
               key \notin RowKeys(new_offlines)
        /\ HasAlert("offline") =>
               DownKeys(map_status_rows) \cap UpKeys(latest.map_status) # {}
        /\ \A key \in UpKeys(latest.map_status) \cap UpKeys(map_status_rows) :
               key \notin RowKeys(back_online)
        /\ HasAlert("back_online") =>
               UpKeys(map_status_rows) \cap DownKeys(latest.map_status) # {}

\* the third of three runs: an endpoint the second run reported as new
\* offline is still down and is not reported again, while another endpoint
\* is up as it was before
C37_Witness ==
    /\ pc = "built"
    /\ run_no = 3
    /\ prev.exists
    /\ Keys(prev.new_offlines) \cap DownKeys(map_status_rows) # {}
    /\ UpKeys(latest.map_status) \cap UpKeys(map_status_rows) # {}
    /\ new_offlines = <<>>
    /\ back_online = <<>>
    /\ alert_rows = <<>>

\* ---------------------------------------------------------------- C38
\* the offline alert of the run was delivered to the webhook
DeliveredOffline ==
    \E i \in 1..Len(alert_rows) :
        /\ alert_rows[i].alert_type = "offline"
        /\ alert_rows[i].delivery_ok = "True"

\* C38: when the next run starts after a run that delivered an offline
\* alert, the snapshot it will read is the snapshot of the run that
\* delivered the alert, whether that run returned or aborted in its output
\* stage: the outage is not reported again
C38_AlertedSnapshotIsLatest ==
    [][(run_no' = run_no + 1 /\ DeliveredOffline) =>
          /\ latest.exists
          /\ latest.json = "list"
          /\ latest.map_status =
                 [i \in 1..Len(map_status_rows) |-> LatestRow(map_status_rows[i])]]_vars

\* ---------------------------------------------------------------- C39
\* C39: for a feed of rows as the scanner publishes them, sanitize_rows
\* returns one row per input row, with the status and status_code of the
\* input row, server_up true exactly when status_code is 0, and gateway_up
\* true only when the input gateway_up was "true"
C39_SanitizedKeepsStatus ==
    cleaned.done =>
        /\ Len(cleaned.rows) = Len(feed)
        /\ \A i \in 1..Len(feed) :
               /\ cleaned.rows[i].status = feed[i].status
               /\ cleaned.rows[i].status_code = feed[i].status_code
               /\ cleaned.rows[i].server_up <=> cleaned.rows[i].status_code = 0
               /\ cleaned.rows[i].gateway_up => feed[i].gateway_up = "true"

====
